---- MODULE Spec2Model ----
(***************************************************************************)
(* Invoice Record builder: the two source variants of the bundle assembly  *)
(* engine, src/src/App.js ("App") and src/src/invoice-record-2.js ("R2").  *)
(*                                                                         *)
(* Conventions of the model                                                *)
(*   - JavaScript strings that are identifiers or references are TLA+      *)
(*     strings; template literals are concatenation (\o).                  *)
(*   - JavaScript null / undefined is the value Null.                      *)
(*   - JavaScript numbers and the texts of numeric form fields are         *)
(*     records: see the Numbers section.                                   *)
(*   - Array indices are 1-based here and 0-based in the source;           *)
(*     selectedPatientIdx keeps the source's 0-based value, NoPatient      *)
(*     standing for "no selection" (-1 in App.js, null in R2).             *)
(***************************************************************************)
EXTENDS Integers, Sequences, FiniteSets, TLC

VARIABLES
  variant,             \* "App" | "R2": which source file is the running program
  uuidCount,           \* number of uuidv4() results handed out so far
  practitionerRefId,   \* App.js module constant, safeUuid(window.GlobalPractitioner.id)
  selectedPatientIdx,  \* both variants
  selectedAbha,        \* both variants
  status,              \* App.js form state
  title,
  encounterText,
  custodianName,
  attesterMode,
  attesterPartyType,
  attesterOrgName,
  lines,               \* App.js invoice lines
  files,               \* App.js picked File objects
  builds,              \* App.js: the onBuildBundle invocations (their closures)
  submissions,         \* App.js: the payloads handed to axios.post
  practitioner,        \* R2 form state
  organization,
  lineItems,           \* R2 invoice lines
  totalNet,            \* R2 total fields (text)
  totalTax,
  totalGross,
  attachments,         \* R2 loaded attachments
  readers,             \* R2 FileReaders started by handleFileChange, with their state
  generated,           \* R2: the bundles buildBundle has returned, in order
  alerted,             \* the messages of the most recent alert()
  addrIn,              \* normalizer harness: the patient handed to the normalizers
  addrOut,             \* normalizer harness: what the normalizers returned
  dateIn,              \* date harness: the value handed to the date normalizers
  dateOut,             \* date harness: what they returned
  idIn,                \* identifier harness: the value handed to safeUuid
  idOut,               \* identifier harness: how the call ended
  dateTimeLocal,       \* App.js form state: the "datetime-local" input
  invoiceDate,         \* R2 form state: the "date" input
  now,                 \* the clock new Date() and Date.now() read, in seconds
  patients,            \* both variants: the patient list as loaded so far
  tzOffset,            \* what Date.prototype.getTimezoneOffset() returns, in minutes
  console,             \* App.js: what the handlers of the axios.post promises logged
  downloaded           \* R2: the texts downloadBundle has put in a Blob, in order

vars == << variant, uuidCount, practitionerRefId, selectedPatientIdx, selectedAbha,
           status, title, encounterText, custodianName, attesterMode, attesterPartyType,
           attesterOrgName, lines, files, builds, submissions, practitioner,
           organization, lineItems, totalNet, totalTax, totalGross, attachments,
           readers, generated, alerted, addrIn, addrOut, dateIn, dateOut, idIn, idOut,
           dateTimeLocal, invoiceDate, now, patients, tzOffset, console, downloaded >>

appForm == << status, title, encounterText, custodianName, attesterMode, attesterPartyType,
              attesterOrgName >>
r2Totals == << totalNet, totalTax, totalGross >>
addrVars == << addrIn, addrOut >>
utilVars == << dateIn, dateOut, idIn, idOut >>
timeVars == << dateTimeLocal, invoiceDate, now >>
ioVars == << patients, tzOffset, console, downloaded >>

(***************************************************************************)
(* Bounds of the model                                                     *)
(***************************************************************************)
MaxBuilds == 1      \* build invocations per behaviour
MaxFiles == 2       \* files in one selection / attachments loaded
MaxLines == 2       \* invoice lines
MaxAddr == 3        \* entries of a patient's address list
MaxRuns == 2        \* builds on the same inputs (SpecTwice)
MaxClock == 2       \* seconds the clock advances (SpecTwice)
MaxIds == 5         \* uuidv4() results before the form stops drawing (SpecForm)

Null == "null"
NoPatient == -1

(***************************************************************************)
(* Small helpers                                                           *)
(***************************************************************************)
Range(s) == { s[i] : i \in DOMAIN s }


(***************************************************************************)
(* Identifier generator                                                    *)
(***************************************************************************)
\* uuidv4(): the n-th call returns a value no earlier call returned and no
\* external source supplied.  Fresh_ShortPeriod is a generator that repeats
\* itself after ten calls.
Fresh_ShortPeriod(n) == "uuid-" \o ToString(n % 10)
Fresh(n) == "uuid-" \o ToString(n)

\* String.prototype.toLowerCase on the identifier strings of the model.
toLowerCase(s) ==
  CASE s = "3F2A1B4C-0D9E-4F1A-8B2C-5D6E7F8091A2" -> "3f2a1b4c-0d9e-4f1a-8b2c-5d6e7f8091a2"
    [] s = "PAT-REF-0007" -> "pat-ref-0007"
    [] OTHER -> s

\* isUuid: typeof s === "string" and the 8-4-4-4-12 lower-case pattern.
isUuid(s) == s \in { "3f2a1b4c-0d9e-4f1a-8b2c-5d6e7f8091a2" }

\* safeUuid(maybeId), given the uuidv4() result it would fall back to.
safeUuid(maybeId, fallback) ==
  LET s == IF maybeId = Null THEN "" ELSE maybeId
  IN IF isUuid(toLowerCase(s)) THEN toLowerCase(maybeId) ELSE fallback

\* values window.GlobalPractitioner.id takes in the model
GpIds == { Null, "3F2A1B4C-0D9E-4F1A-8B2C-5D6E7F8091A2",
           "3f2a1b4c-0d9e-4f1a-8b2c-5d6e7f8091a2", "practitioner-17" }

Urn(id) == "urn:uuid:" \o id

(***************************************************************************)
(* Texts by character                                                      *)
(*   A JavaScript value handed to a utility is a record: [t |-> "string",  *)
(*   s |-> the sequence of its characters], [t |-> "number", n |-> n],     *)
(*   [t |-> "undefined"] or [t |-> "null"].                                *)
(***************************************************************************)
Str(chars) == [ t |-> "string", s |-> chars ]
UndefinedVal == [ t |-> "undefined" ]
NullVal == [ t |-> "null" ]
Num(n) == [ t |-> "number", n |-> n ]

\* !v
Falsy(v) ==
  \/ v.t \in { "undefined", "null" }
  \/ v.t = "string" /\ v.s = <<>>
  \/ v.t = "number" /\ v.n = 0

Digits == { "0", "1", "2", "3", "4", "5", "6", "7", "8", "9" }
AllDigits(s) == \A i \in DOMAIN s : s[i] \in Digits

\* String.prototype.trim
RECURSIVE Trim(_)
Trim(s) ==
  IF s # <<>> /\ s[1] = " " THEN Trim(Tail(s))
  ELSE IF s # <<>> /\ s[Len(s)] = " " THEN Trim(SubSeq(s, 1, Len(s) - 1))
  ELSE s

\* String.prototype.includes for a one-character needle
Includes(s, c) == \E i \in DOMAIN s : s[i] = c

\* String.prototype.split for a one-character separator
RECURSIVE Split(_, _)
Split(s, sep) ==
  IF ~Includes(s, sep) THEN << s >>
  ELSE LET i == CHOOSE k \in DOMAIN s : s[k] = sep /\ \A j \in 1..(k - 1) : s[j] # sep
       IN << SubSeq(s, 1, i - 1) >> \o Split(SubSeq(s, i + 1, Len(s)), sep)

\* part.padStart(2, "0")
PadStart2(part) ==
  IF Len(part) >= 2 THEN part
  ELSE IF Len(part) = 1 THEN << "0" >> \o part
  ELSE << "0", "0" >>

\* /^\d{4}-\d{2}-\d{2}$/.test(s)
IsIsoDate(s) ==
  /\ Len(s) = 10
  /\ s[5] = "-"
  /\ s[8] = "-"
  /\ \A i \in (1..10) \ { 5, 8 } : s[i] \in Digits

(***************************************************************************)
(* Date normalizers                                                        *)
(***************************************************************************)
\* what a date normalizer returns: undefined or a text
Undefined == [ defined |-> FALSE ]
Text(chars) == [ defined |-> TRUE, s |-> chars ]
\* d.toISOString().slice(0, 10) of whatever date the engine's parser made
EngineDate == [ defined |-> TRUE, parsedBy |-> "Date" ]

\* App.js ddmmyyyyToISO(v)
ddmmyyyyToISO(v) ==
  IF Falsy(v) THEN Undefined
  ELSE LET s == Trim(v.s)
       IN IF IsIsoDate(s) THEN Text(s)
          ELSE IF ~Includes(s, "-") /\ ~Includes(s, "/") THEN Undefined
          ELSE LET sep == IF Includes(s, "-") THEN "-" ELSE "/"
                   parts == Split(s, sep)
               IN IF Len(parts) # 3 THEN Undefined
                  ELSE LET dd == parts[1]
                           mm == parts[2]
                           yyyy == parts[3]
                       IN IF dd = <<>> \/ mm = <<>> \/ yyyy = <<>> THEN Undefined
                          ELSE Text(yyyy \o << "-" >> \o PadStart2(mm) \o << "-" >> \o PadStart2(dd))

\* input.match(/^(\d{1,2})[-\/](\d{1,2})[-\/](\d{2,4})$/): the three groups,
\* <<>> when there is no match
DmyMatch(s) ==
  LET hits == { abc \in { 1, 2 } \X { 1, 2 } \X { 2, 3, 4 } :
                  /\ Len(s) = abc[1] + abc[2] + abc[3] + 2
                  /\ AllDigits(SubSeq(s, 1, abc[1]))
                  /\ s[abc[1] + 1] \in { "-", "/" }
                  /\ AllDigits(SubSeq(s, abc[1] + 2, abc[1] + abc[2] + 1))
                  /\ s[abc[1] + abc[2] + 2] \in { "-", "/" }
                  /\ AllDigits(SubSeq(s, abc[1] + abc[2] + 3, Len(s))) }
  IN IF hits = {} THEN <<>>
     ELSE LET abc == CHOOSE h \in hits : TRUE
          IN << SubSeq(s, 1, abc[1]),
                SubSeq(s, abc[1] + 2, abc[1] + abc[2] + 1),
                SubSeq(s, abc[1] + abc[2] + 3, Len(s)) >>

\* whether new Date(input) can be a valid date: the parser of a text that is
\* not in the ISO format is the engine's own; a text with no digit (and no
\* month name) is an Invalid Date in every engine
DateIsValid(s) == IF \E i \in DOMAIN s : s[i] \in Digits THEN { TRUE, FALSE } ELSE { FALSE }

\* R2 toFhirDate(input), valid telling whether new Date(input) is a valid date
toFhirDate(input, valid) ==
  IF Falsy(input) THEN Undefined
  ELSE IF IsIsoDate(input.s) THEN Text(input.s)
  ELSE LET m == DmyMatch(input.s)
       IN IF m # <<>>
            THEN LET dd == PadStart2(m[1])
                     mm == PadStart2(m[2])
                     yy == IF Len(m[3]) = 2 THEN << "1", "9" >> \o m[3] ELSE m[3]
                 IN Text(yy \o << "-" >> \o mm \o << "-" >> \o dd)
            ELSE IF valid THEN EngineDate ELSE Undefined

(***************************************************************************)
(* Identifier generator, by character                                      *)
(***************************************************************************)
LowerHex == Digits \cup { "a", "b", "c", "d", "e", "f" }
UpperToLower == [ c \in { "A", "B", "C", "D", "E", "F", "G", "P" } |->
                    CASE c = "A" -> "a" [] c = "B" -> "b" [] c = "C" -> "c" [] c = "D" -> "d"
                      [] c = "E" -> "e" [] c = "F" -> "f" [] c = "G" -> "g" [] OTHER -> "p" ]

\* String.prototype.toLowerCase
LowerText(chars) ==
  [ i \in DOMAIN chars |-> IF chars[i] \in DOMAIN UpperToLower THEN UpperToLower[chars[i]]
                           ELSE chars[i] ]

\* isUuid(s): typeof s === "string" and
\* /^[0-9a-f]{8}-[0-9a-f]{4}-[1-5][0-9a-f]{3}-[89ab][0-9a-f]{3}-[0-9a-f]{12}$/
IsUuidText(v) ==
  /\ v.t = "string"
  /\ Len(v.s) = 36
  /\ \A i \in { 9, 14, 19, 24 } : v.s[i] = "-"
  /\ v.s[15] \in { "1", "2", "3", "4", "5" }
  /\ v.s[20] \in { "8", "9", "a", "b" }
  /\ \A i \in (1..36) \ { 9, 14, 15, 19, 20, 24 } : v.s[i] \in LowerHex

\* uuidv4(): the template with every x replaced by the digit x and the y by
\* the digit y (x one of 16 digits, y one of 8, 9, a, b)
Uuidv4Text(x, y) ==
  Str([ i \in 1..36 |-> IF i \in { 9, 14, 19, 24 } THEN "-"
                        ELSE IF i = 15 THEN "4"
                        ELSE IF i = 20 THEN y
                        ELSE x ])

\* the results of uuidv4() the model draws
FreshTexts == { Uuidv4Text(x, y) : x \in { "0", "7", "f" }, y \in { "8", "9", "a", "b" } }

\* how a call ends: with a value or with a TypeError
Returned(v) == [ threw |-> FALSE, value |-> v ]
Threw == [ threw |-> TRUE ]

\* safeUuid(maybeId) without its lower-casing of the value it returns
SafeUuidText_AsGiven(maybeId, fresh) ==
  LET a == IF Falsy(maybeId) THEN Str(<<>>) ELSE maybeId
  IN IF a.t # "string" THEN Threw
     ELSE IF IsUuidText(Str(LowerText(a.s))) THEN Returned(maybeId)
     ELSE Returned(fresh)
\* safeUuid(maybeId), fresh being what uuidv4() returns if it is called:
\* (maybeId || "").toLowerCase() is a TypeError for a truthy value that is
\* not a string
SafeUuidText(maybeId, fresh) ==
  LET a == IF Falsy(maybeId) THEN Str(<<>>) ELSE maybeId
  IN IF a.t # "string" THEN Threw
     ELSE IF IsUuidText(Str(LowerText(a.s))) THEN Returned(Str(LowerText(maybeId.s)))
     ELSE Returned(fresh)

(***************************************************************************)
(* Patient directory (external collaborator): the list both variants load  *)
(***************************************************************************)
\* An entry of an address list: t is its JavaScript type ("null", "string",
\* "object", "number"); s the string itself; address / isPrimary the object's
\* fields (address Null when the object has none); json its JSON.stringify.
NullItem == [ t |-> "null", s |-> "", address |-> Null, isPrimary |-> FALSE, json |-> "null" ]
StrItem(v) == [ t |-> "string", s |-> v, address |-> Null, isPrimary |-> FALSE, json |-> v ]
ObjItem(a, prim) == [ t |-> "object", s |-> "", address |-> a, isPrimary |-> prim, json |-> "{..}" ]
OpaqueItem(prim) == [ t |-> "object", s |-> "", address |-> Null, isPrimary |-> prim,
                      json |-> "{\"handle\":1}" ]

\* An address list location of a patient object: an array or not there.
Arr(items) == [ isArray |-> TRUE, items |-> items ]
NoArr == [ isArray |-> FALSE, items |-> <<>> ]

Patients ==
  << [ id |-> "101", name |-> "Asha", user_ref_id |-> "PAT-REF-0007",
       abha_ref |-> "asha@abdm",
       nested |-> Arr(<< ObjItem("asha@sbx", FALSE), ObjItem("asha@abdm", TRUE) >>),
       top |-> NoArr ],
     [ id |-> "102", name |-> "Ravi", user_ref_id |-> Null,
       abha_ref |-> Null,
       nested |-> NoArr,
       top |-> Arr(<< StrItem("ravi@abdm") >>) ] >>

PatientIdxs == 0..(Len(Patients) - 1)
PatientAt(i) == Patients[i + 1]

(***************************************************************************)
(* Contact normalizers                                                     *)
(***************************************************************************)
\* The strings of the model in the order String.prototype.localeCompare
\* gives them (punctuation before letters, then alphabetical).
Collation == << "{\"handle\":1}", "a", "asha@abdm", "asha@sbx", "b", "c", "ravi@abdm" >>
CollationRank(v) == CHOOSE i \in DOMAIN Collation : Collation[i] = v

\* a.localeCompare(b): negative, 0 or positive
localeCompare(a, b) == CollationRank(a) - CollationRank(b)

Bit(flag) == IF flag THEN 1 ELSE 0

\* the comparator of out.sort: (b.primary - a.primary) || a.value.localeCompare(b.value)
AddrCompare(a, b) ==
  LET d == Bit(b.primary) - Bit(a.primary)
  IN IF d # 0 THEN d ELSE localeCompare(a.value, b.value)

\* Array.prototype.sort (stable): insertion of x behind every element that
\* does not compare greater than it
RECURSIVE InsertSorted(_, _)
InsertSorted(sorted, x) ==
  IF sorted = <<>> THEN << x >>
  ELSE IF AddrCompare(sorted[1], x) <= 0
         THEN << sorted[1] >> \o InsertSorted(Tail(sorted), x)
         ELSE << x >> \o sorted

RECURSIVE SortAddrs(_)
SortAddrs(s) ==
  IF s = <<>> THEN <<>>
  ELSE InsertSorted(SortAddrs(SubSeq(s, 1, Len(s) - 1)), s[Len(s)])

\* what the map callback of normalizeAbhaAddresses returns for one entry;
\* <<>> stands for null
AppAddrEntry(item) ==
  IF item.t = "string" /\ item.s # ""
    THEN << [ value |-> item.s, label |-> item.s, primary |-> FALSE ] >>
  ELSE IF item.t = "object"
    THEN IF item.address # Null /\ item.address # ""
           THEN << [ value |-> item.address,
                     label |-> IF item.isPrimary THEN item.address \o " (primary)" ELSE item.address,
                     primary |-> item.isPrimary ] >>
           ELSE << [ value |-> item.json, label |-> item.json, primary |-> item.isPrimary ] >>
  ELSE <<>>

\* raw.map(...).filter(Boolean)
AppAddrEntries(raw) ==
  LET acc[i \in 0..Len(raw)] == IF i = 0 THEN <<>> ELSE acc[i - 1] \o AppAddrEntry(raw[i])
  IN acc[Len(raw)]

\* normalizeAbhaAddresses(patientObj)
normalizeAbhaAddresses(patientObj) ==
  LET raw == IF patientObj.nested.isArray THEN patientObj.nested.items
             ELSE IF patientObj.top.isArray THEN patientObj.top.items
             ELSE <<>>
  IN SortAddrs(AppAddrEntries(raw))

\* what the map and filter(Boolean) of getAbhaAddressesForPatient keep of one entry
R2AddrEntry(item) ==
  LET v == CASE item.t = "string" -> item.s
             [] item.t = "object" -> IF item.address # Null THEN item.address ELSE item.json
             [] item.t = "null" -> ""
             [] OTHER -> item.json
  IN IF v # "" THEN << v >> ELSE <<>>

\* arr.map(...).filter(Boolean)
R2AddrEntries(arr) ==
  LET acc[i \in 0..Len(arr)] == IF i = 0 THEN <<>> ELSE acc[i - 1] \o R2AddrEntry(arr[i])
  IN acc[Len(arr)]

\* Array.from(new Set(s)): first occurrences, in order
RECURSIVE Dedupe(_)
Dedupe(s) ==
  IF s = <<>> THEN <<>>
  ELSE LET rest == Dedupe(SubSeq(s, 1, Len(s) - 1))
       IN IF s[Len(s)] \in Range(rest) THEN rest ELSE Append(rest, s[Len(s)])

\* getAbhaAddressesForPatient(pt)
getAbhaAddressesForPatient(pt) ==
  LET arr == IF pt.nested.isArray THEN pt.nested.items ELSE <<>>
      normalized == R2AddrEntries(arr)
      withRef == IF pt.abha_ref # Null /\ pt.abha_ref # "" /\ pt.abha_ref \notin Range(normalized)
                   THEN << pt.abha_ref >> \o normalized
                   ELSE normalized
  IN Dedupe(withRef)

(***************************************************************************)
(* Numbers and numeric texts                                               *)
(*   number: [k |-> "fin", v |-> n], n in units of 1/Scale; [k |-> "nan"]; *)
(*           [k |-> "inf"]                                                 *)
(*   text:   [k |-> "lit", v |-> n]  a decimal literal denoting n/Scale    *)
(*           [k |-> "empty"]         ""                                    *)
(*           [k |-> "blank"]         white space only                      *)
(*           [k |-> "text"]          not a numeric literal, such as "abc"  *)
(*           [k |-> "Infinity"]      the text "Infinity"                   *)
(* Decimal values are exact here; the binary rounding of IEEE doubles at   *)
(* exact decimal ties is not modelled.                                     *)
(***************************************************************************)
Scale == 100 * 100

Fin(n) == [k |-> "fin", v |-> n]
NaN == [k |-> "nan"]
Inf == [k |-> "inf"]
Lit(n) == [k |-> "lit", v |-> n]
EmptyText == [k |-> "empty"]
BlankText == [k |-> "blank"]
WordText == [k |-> "text"]
InfinityText == [k |-> "Infinity"]

\* whole units (1, 2, 500) as numbers
Whole(n) == Fin(n * Scale)

\* Number(x)
Number(x) ==
  CASE x.k \in {"fin", "nan", "inf"} -> x
    [] x.k = "lit" -> Fin(x.v)
    [] x.k \in {"empty", "blank"} -> Fin(0)
    [] x.k = "Infinity" -> Inf
    [] OTHER -> NaN

\* ToBoolean(x): a number is falsy when 0 or NaN, a text when empty
Truthy(x) ==
  CASE x.k = "fin" -> x.v # 0
    [] x.k = "nan" -> FALSE
    [] x.k = "empty" -> FALSE
    [] OTHER -> TRUE

isNaN(n) == n.k = "nan"

\* a * b and a + b on numbers (operands of the model are finite or, from an
\* override text, NaN or Infinity)
MulFix(a, b) ==
  LET ai == a \div Scale  af == a % Scale
      bi == b \div Scale  bf == b % Scale
  IN ai * bi * Scale + ai * bf + af * bi + (af * bf) \div Scale

Mul(a, b) ==
  IF a.k = "fin" /\ b.k = "fin" THEN Fin(MulFix(a.v, b.v))
  ELSE IF a.k = "nan" \/ b.k = "nan" THEN NaN ELSE Inf

Add(a, b) ==
  IF a.k = "fin" /\ b.k = "fin" THEN Fin(a.v + b.v)
  ELSE IF a.k = "nan" \/ b.k = "nan" THEN NaN ELSE Inf

\* x / 100
Div100(a) == IF a.k = "fin" THEN Fin(a.v \div 100) ELSE a

\* a > 0
Positive(a) == a.k = "inf" \/ (a.k = "fin" /\ a.v > 0)

\* rounding to 2 decimals, half away from zero
Round2(n) ==
  LET hundredth == Scale \div 100
      half == hundredth \div 2
  IN IF n >= 0 THEN hundredth * ((n + half) \div hundredth)
     ELSE 0 - hundredth * ((half - n) \div hundredth)

\* Number.prototype.toFixed(2)
toFixed2(a) ==
  CASE a.k = "fin" -> Lit(Round2(a.v))
    [] a.k = "inf" -> InfinityText
    [] OTHER -> WordText

RECURSIVE SumNum(_)
SumNum(s) == IF s = <<>> THEN Fin(0) ELSE Add(s[1], SumNum(Tail(s)))

(***************************************************************************)
(* App.js: form helpers                                                    *)
(***************************************************************************)
\* Number(x) || 0
NumOr0(x) == LET n == Number(x) IN IF Truthy(n) THEN n ELSE Fin(0)

LineAmount(l) == Mul(NumOr0(l.quantity), NumOr0(l.unitPrice))

\* invoiceTotal (useMemo over lines)
invoiceTotal(ls) == SumNum([ i \in DOMAIN ls |-> LineAmount(ls[i]) ])

\* title.trim() is empty
IsBlank(t) == t \in { "", "  " }

\* validateBeforeBuild(): the list of error messages
validateBeforeBuild ==
  LET hasCharge == \E i \in DOMAIN lines : Positive(LineAmount(lines[i]))
      hasDocs == Len(files) > 0
  IN (IF selectedPatientIdx \notin PatientIdxs THEN << "Select a patient (required)." >> ELSE <<>>)
     \o (IF status = "" THEN << "Status is required." >> ELSE <<>>)
     \o (IF IsBlank(title) THEN << "Title is required." >> ELSE <<>>)
     \o (IF ~(hasCharge \/ hasDocs)
           THEN << "Add at least one invoice line with amount > 0, or upload at least one document." >>
           ELSE <<>>)

(***************************************************************************)
(* Time.  A Date is either the clock reading of new Date() or the parse of  *)
(* a "datetime-local" text; both formats below print a clock reading to the *)
(* second or finer, so readings one second apart print differently.         *)
(***************************************************************************)
NewDate == [ tick |-> now ]
DateOf(localDatetime) == [ local |-> localDatetime ]

\* Date.prototype.getTimezoneOffset(): the minutes to add to local time to
\* get UTC (-330 in IST)
getTimezoneOffset == tzOffset

\* pad(n): String(Math.abs(Math.floor(n))).padStart(2, "0")
pad(n) ==
  LET a == IF n < 0 THEN 0 - n ELSE n
  IN IF a < 10 THEN "0" \o ToString(a) ELSE ToString(a)

\* the local date and time of d to the second, then sign, hh, ":" and mm of
\* the local offset
isoWithLocalOffsetFromDate(d) ==
  LET tzo == 0 - getTimezoneOffset
      sign == IF tzo >= 0 THEN "+" ELSE "-"
      abs == IF tzo < 0 THEN 0 - tzo ELSE tzo
      hh == pad(abs \div 60)
      mm == pad(abs % 60)
  IN (IF "tick" \in DOMAIN d THEN "T0+" \o ToString(d.tick) \o "s" ELSE d.local \o ":00")
     \o sign \o hh \o ":" \o mm

\* a conversion that ignores the input and stamps the clock
localDatetimeToISOWithOffset_Clock(localDatetime) == isoWithLocalOffsetFromDate(NewDate)
localDatetimeToISOWithOffset(localDatetime) ==
  IF localDatetime = "" THEN isoWithLocalOffsetFromDate(NewDate)
  ELSE isoWithLocalOffsetFromDate(DateOf(localDatetime))

\* new Date().toISOString() and Date.now()
toISOString(d) == "T0+" \o ToString(d.tick) \o ".000sZ"
DateNow == ToString(now)

(***************************************************************************)
(* App.js: the identifiers one onBuildBundle invocation draws              *)
(* (n is uuidCount when the invocation starts; "|| uuidv4()" and the       *)
(* conditional ids call uuidv4() only when their condition holds)          *)
(***************************************************************************)
BuildIds(n) ==
  LET compId == Fresh(n + 1)
      patientId == Fresh(n + 2)
      n2 == n + 2
      practitionerId == IF practitionerRefId # "" THEN practitionerRefId ELSE Fresh(n2 + 1)
      n3 == IF practitionerRefId # "" THEN n2 ELSE n2 + 1
      encounterId == IF encounterText # "" THEN Fresh(n3 + 1) ELSE Null
      n4 == IF encounterText # "" THEN n3 + 1 ELSE n3
      custodianId == IF custodianName # "" THEN Fresh(n4 + 1) ELSE Null
      n5 == IF custodianName # "" THEN n4 + 1 ELSE n4
      hasAttOrg == attesterPartyType = "Organization" /\ attesterOrgName # ""
      attesterOrgId == IF hasAttOrg THEN Fresh(n5 + 1) ELSE Null
      n6 == IF hasAttOrg THEN n5 + 1 ELSE n5
      invoiceId == Fresh(n6 + 1)
      n7 == n6 + 1
      k == IF Len(files) > 0 THEN Len(files) ELSE 1
  IN [ compId |-> compId, patientId |-> patientId, practitionerId |-> practitionerId,
       encounterId |-> encounterId, custodianId |-> custodianId,
       attesterOrgId |-> attesterOrgId, invoiceId |-> invoiceId,
       docBinaryIds |-> [ i \in 1..k |-> Fresh(n7 + i) ],
       docRefIds |-> [ i \in 1..k |-> Fresh(n7 + k + i) ],
       used |-> n7 + 2 * k ]

(***************************************************************************)
(* App.js: resource builders.  c is the closure of one invocation: its ids *)
(* and the form state it captured.  An optional resource (null in the      *)
(* source when absent) is a sequence of length 0 or 1.                     *)
(***************************************************************************)
buildPatientResource(c) ==
  [ resourceType |-> "Patient", id |-> c.ids.patientId ]

buildPractitionerResource(c) ==
  [ resourceType |-> "Practitioner", id |-> c.ids.practitionerId ]

\* a builder that never returns an Encounter
buildEncounterResource_None(c) == <<>>
buildEncounterResource(c) ==
  IF c.ids.encounterId = Null THEN <<>>
  ELSE LET start == isoWithLocalOffsetFromDate(NewDate)
       IN << [ resourceType |-> "Encounter", id |-> c.ids.encounterId,
               subject |-> [ reference |-> Urn(c.ids.patientId) ],
               period |-> [ start |-> start, end |-> start ] ] >>

buildCustodianOrg(c) ==
  IF c.ids.custodianId = Null THEN <<>>
  ELSE << [ resourceType |-> "Organization", id |-> c.ids.custodianId,
            name |-> c.custodianName ] >>

buildAttesterOrg(c) ==
  IF c.ids.attesterOrgId = Null THEN <<>>
  ELSE << [ resourceType |-> "Organization", id |-> c.ids.attesterOrgId,
            name |-> c.attesterOrgName ] >>

AppKeepsLine(l) ==
  /\ Positive(NumOr0(l.quantity))
  /\ LET u == NumOr0(l.unitPrice) IN u.k = "inf" \/ (u.k = "fin" /\ u.v >= 0)

AppLineItem(l) ==
  [ chargeItemCodeableConcept |-> [ text |-> IF l.description # "" THEN l.description ELSE "Charge" ],
    priceComponent |-> << [ type |-> "base", amount |-> [ value |-> NumOr0(l.unitPrice), currency |-> "INR" ] ],
                          [ type |-> "informational", factor |-> NumOr0(l.quantity) ] >> ]

buildInvoiceResource(c) ==
  LET kept == SelectSeq(c.lines, AppKeepsLine)
      lineItems_ == [ i \in DOMAIN kept |-> AppLineItem(kept[i]) ]
      total == Number(toFixed2(invoiceTotal(c.lines)))
  IN [ resourceType |-> "Invoice", id |-> c.ids.invoiceId,
       subject |-> [ reference |-> Urn(c.ids.patientId) ],
       date |-> c.authoredOn,
       participant |-> << [ actor |-> [ reference |-> Urn(c.ids.practitionerId) ] ] >>,
       totalNet |-> [ value |-> total, currency |-> "INR" ],
       totalGross |-> [ value |-> total, currency |-> "INR" ] ]
     @@ (IF Len(lineItems_) > 0 THEN [ lineItem |-> lineItems_ ] ELSE <<>>)

PLACEHOLDER_PDF_B64 == "JVBERi0xLjQKJeLjz9MK"

\* FileReader.readAsDataURL(file): the data URL, head and base64 payload
DataUrl(f) == [ head |-> "data:" \o f.type \o ";base64,", payload |-> "b64(" \o f.bytes \o ")" ]

\* fileToBase64NoPrefix: what the promise resolves to (the text after "base64,")
fileToBase64NoPrefix(f) == DataUrl(f).payload

\* one turn of the loop of buildDocAndBinaryResources: the Binary and the
\* DocumentReference of toProcess[i]; files <<>> stands for [null]
DocBinary(c, i, dataB64) ==
  LET isFile == Len(c.files) > 0
      contentType == IF isFile /\ c.files[i].type # "" THEN c.files[i].type ELSE "application/pdf"
  IN [ resourceType |-> "Binary", id |-> c.ids.docBinaryIds[i],
       contentType |-> contentType,
       data |-> IF isFile THEN dataB64 ELSE PLACEHOLDER_PDF_B64 ]

DocRef(c, i) ==
  LET isFile == Len(c.files) > 0
      contentType == IF isFile /\ c.files[i].type # "" THEN c.files[i].type ELSE "application/pdf"
      titleDoc == IF isFile /\ c.files[i].name # "" THEN c.files[i].name ELSE "placeholder.pdf"
  IN [ resourceType |-> "DocumentReference", id |-> c.ids.docRefIds[i],
       subject |-> [ reference |-> Urn(c.ids.patientId) ],
       date |-> c.authoredOn,
       content |-> << [ attachment |-> [ contentType |-> contentType, title |-> titleDoc,
                                         url |-> Urn(c.ids.docBinaryIds[i]) ] ] >> ]

SectionEntries(c, docRefsArr) ==
  << [ reference |-> Urn(c.ids.invoiceId), type |-> "Invoice" ] >>
  \o [ i \in DOMAIN docRefsArr |-> [ reference |-> Urn(docRefsArr[i].id), type |-> "DocumentReference" ] ]

\* an attester list that always names the Author in the chosen mode
AttesterArr_AlwaysAuthor(c) ==
  << [ mode |-> c.attesterMode, party |-> [ reference |-> Urn(c.ids.practitionerId) ] ] >>
AttesterArr(c) ==
  IF c.attesterPartyType = "Practitioner"
    THEN << [ mode |-> c.attesterMode, party |-> [ reference |-> Urn(c.ids.practitionerId) ] ] >>
  ELSE IF c.attesterPartyType = "Organization" /\ c.ids.attesterOrgId # Null
    THEN << [ mode |-> c.attesterMode, party |-> [ reference |-> Urn(c.ids.attesterOrgId) ] ] >>
  ELSE <<>>

buildComposition(c, docRefsArr) ==
  LET entries == SectionEntries(c, docRefsArr)
      attesterArr == AttesterArr(c)
  IN [ resourceType |-> "Composition", id |-> c.ids.compId,
       status |-> c.status,
       subject |-> [ reference |-> Urn(c.ids.patientId) ],
       date |-> c.authoredOn,
       author |-> << [ reference |-> Urn(c.ids.practitionerId) ] >>,
       title |-> c.title,
       attester |-> IF Len(attesterArr) > 0 THEN attesterArr
                    ELSE << [ mode |-> "official", party |-> [ reference |-> Urn(c.ids.practitionerId) ] ] >>,
       section |-> << [ title |-> "Invoice section", entry |-> entries ] >> ]
     @@ (IF c.ids.encounterId # Null THEN [ encounter |-> [ reference |-> Urn(c.ids.encounterId) ] ] ELSE <<>>)
     @@ (IF c.ids.custodianId # Null THEN [ custodian |-> [ reference |-> Urn(c.ids.custodianId) ] ] ELSE <<>>)

\* an entry whose locator is the bare id, without the "urn:uuid:" prefix
Entry_BareId(r) == [ fullUrl |-> r.id, resource |-> r ]
Entry(r) == [ fullUrl |-> Urn(r.id), resource |-> r ]
EntriesOf(rs) == [ i \in DOMAIN rs |-> Entry(rs[i]) ]

\* "Compose Bundle" .. "Documents": n is uuidCount when the bundle is composed
AppBundle(c, binaries, docRefs, n) ==
  LET compositionRes == buildComposition(c, docRefs)
  IN [ resourceType |-> "Bundle",
       id |-> "InvoiceBundle-" \o Fresh(n + 1),
       meta |-> [ lastUpdated |-> isoWithLocalOffsetFromDate(NewDate) ],
       timestamp |-> isoWithLocalOffsetFromDate(NewDate),
       identifier |-> [ system |-> "urn:ietf:rfc:3986", value |-> Urn(Fresh(n + 2)) ],
       type |-> "document",
       entry |-> << Entry(compositionRes), Entry(c.patientRes), Entry(c.practitionerRes),
                    Entry(c.invoiceRes) >>
                 \o EntriesOf(c.encounterRes) \o EntriesOf(c.custodianRes)
                 \o EntriesOf(c.attesterOrgRes)
                 \o EntriesOf(docRefs) \o EntriesOf(binaries) ]

\* a payload whose patient is read from the form when the bundle is composed
Submission_CurrentPatient(c, bundle) ==
  [ bundle |-> bundle,
    patient |-> IF selectedPatientIdx \in PatientIdxs THEN PatientAt(selectedPatientIdx).id ELSE "" ]
\* the payload of axios.post
Submission(c, bundle) ==
  [ bundle |-> bundle,
    patient |-> IF c.selectedPatientIdx \in PatientIdxs THEN PatientAt(c.selectedPatientIdx).id ELSE "" ]

(***************************************************************************)
(* App.js: onBuildBundle                                                   *)
(***************************************************************************)
\* the closure of an invocation that passed validation, with the resources
\* built before the first await (n is uuidCount at the call)
NewClosure(n) ==
  LET c0 == [ authoredOn |-> localDatetimeToISOWithOffset(dateTimeLocal),
              ids |-> BuildIds(n), files |-> files, lines |-> lines, status |-> status,
              title |-> title, custodianName |-> custodianName,
              attesterOrgName |-> attesterOrgName, attesterPartyType |-> attesterPartyType,
              attesterMode |-> attesterMode, selectedPatientIdx |-> selectedPatientIdx,
              selectedAbha |-> selectedAbha ]
  IN c0 @@ [ patientRes |-> buildPatientResource(c0),
             practitionerRes |-> buildPractitionerResource(c0),
             encounterRes |-> buildEncounterResource(c0),
             custodianRes |-> buildCustodianOrg(c0),
             attesterOrgRes |-> buildAttesterOrg(c0),
             invoiceRes |-> buildInvoiceResource(c0),
             pc |-> "reading", i |-> 1, binaries |-> <<>>, docRefs |-> <<>> ]

\* click on Submit: validation, ids, the synchronous builders, and either the
\* whole build (no file: nothing to wait for) or the first file read
OnBuildBundle ==
  /\ variant = "App"
  /\ LET errors == validateBeforeBuild
     IN IF Len(errors) > 0
          THEN /\ alerted' = errors
               /\ UNCHANGED << builds, submissions, uuidCount >>
          ELSE LET c == NewClosure(uuidCount)
               IN /\ alerted' = alerted
                  /\ IF Len(files) = 0
                       THEN LET binaries == << DocBinary(c, 1, "") >>
                                docRefs == << DocRef(c, 1) >>
                                bundle == AppBundle(c, binaries, docRefs, c.ids.used)
                            IN /\ builds' = Append(builds, [ c EXCEPT !.pc = "done",
                                                  !.binaries = binaries, !.docRefs = docRefs ])
                               /\ submissions' = Append(submissions, Submission(c, bundle))
                               /\ uuidCount' = c.ids.used + 2
                       ELSE /\ builds' = Append(builds, c)
                            /\ uuidCount' = c.ids.used
                            /\ submissions' = submissions
  /\ UNCHANGED << variant, practitionerRefId, selectedPatientIdx, selectedAbha, appForm,
                  lines, files, practitioner, organization, lineItems, r2Totals,
                  attachments, readers, generated, addrVars, utilVars, timeVars, ioVars >>

\* reader.onload of the file invocation b waits for: its Binary and
\* DocumentReference are built, then the next read starts or, after the last
\* file, the Composition and the Bundle are built and submitted
FileLoaded(b) ==
  /\ variant = "App"
  /\ b \in DOMAIN builds
  /\ builds[b].pc = "reading"
  /\ LET c == builds[b]
         binaries == Append(c.binaries, DocBinary(c, c.i, fileToBase64NoPrefix(c.files[c.i])))
         docRefs == Append(c.docRefs, DocRef(c, c.i))
     IN IF c.i < Len(c.files)
          THEN /\ builds' = [ builds EXCEPT ![b] = [ c EXCEPT !.i = c.i + 1,
                                 !.binaries = binaries, !.docRefs = docRefs ] ]
               /\ UNCHANGED << submissions, uuidCount >>
          ELSE /\ builds' = [ builds EXCEPT ![b] = [ c EXCEPT !.pc = "done",
                                 !.binaries = binaries, !.docRefs = docRefs ] ]
               /\ submissions' = Append(submissions,
                                        Submission(c, AppBundle(c, binaries, docRefs, uuidCount)))
               /\ uuidCount' = uuidCount + 2
  /\ UNCHANGED << variant, practitionerRefId, selectedPatientIdx, selectedAbha, appForm,
                  lines, files, practitioner, organization, lineItems, r2Totals,
                  attachments, readers, generated, alerted, addrVars, utilVars, timeVars, ioVars >>

\* reader.onerror of the file invocation b waits for: the promise rejects,
\* the await throws and onBuildBundle ends there (nothing catches it)
FileReadError(b) ==
  /\ variant = "App"
  /\ b \in DOMAIN builds
  /\ builds[b].pc = "reading"
  /\ builds' = [ builds EXCEPT ![b].pc = "aborted" ]
  /\ UNCHANGED << variant, uuidCount, practitionerRefId, selectedPatientIdx, selectedAbha,
                  appForm, lines, files, submissions, practitioner, organization,
                  lineItems, r2Totals, attachments, readers, generated, alerted, addrVars, utilVars, timeVars, ioVars >>

\* the submissions whose promise has settled
Settled == { console[i].of : i \in DOMAIN console }

\* .then of the axios.post of submission k
PostThen(k) ==
  /\ variant = "App"
  /\ k \in DOMAIN submissions \ Settled
  /\ console' = Append(console, [ of |-> k, level |-> "log", text |-> "FHIR Bundle Submitted:" ])
  /\ alerted' = << "Submitted successfully" >>
  /\ UNCHANGED << variant, uuidCount, practitionerRefId, selectedPatientIdx, selectedAbha,
                  appForm, lines, files, builds, submissions, practitioner, organization,
                  lineItems, r2Totals, attachments, readers, generated, addrVars, utilVars,
                  timeVars, patients, tzOffset, downloaded >>

\* a .catch that logs the failure and posts the bundle again
PostCatch_Retry(k) ==
  /\ variant = "App"
  /\ k \in DOMAIN submissions \ Settled
  /\ console' = console \o
       << [ of |-> k, level |-> "error", text |-> "Error submitting FHIR Bundle:" ],
          [ of |-> k, level |-> "log", text |-> "FHIR Bundle failed to submit:",
            data |-> [ bundle |-> submissions[k].bundle, patient |-> submissions[k].patient ] ] >>
  /\ alerted' = << "Failed to submit FHIR Bundle. See console." >>
  /\ submissions' = Append(submissions, submissions[k])
  /\ UNCHANGED << variant, uuidCount, practitionerRefId, selectedPatientIdx, selectedAbha,
                  appForm, lines, files, builds, practitioner, organization,
                  lineItems, r2Totals, attachments, readers, generated, addrVars, utilVars,
                  timeVars, patients, tzOffset, downloaded >>
\* .catch of the axios.post of submission k: the error and then the payload
\* of the request are logged
PostCatch(k) ==
  /\ variant = "App"
  /\ k \in DOMAIN submissions \ Settled
  /\ console' = console \o
       << [ of |-> k, level |-> "error", text |-> "Error submitting FHIR Bundle:" ],
          [ of |-> k, level |-> "log", text |-> "FHIR Bundle failed to submit:",
            data |-> [ bundle |-> submissions[k].bundle, patient |-> submissions[k].patient ] ] >>
  /\ alerted' = << "Failed to submit FHIR Bundle. See console." >>
  /\ UNCHANGED << variant, uuidCount, practitionerRefId, selectedPatientIdx, selectedAbha,
                  appForm, lines, files, builds, submissions, practitioner, organization,
                  lineItems, r2Totals, attachments, readers, generated, addrVars, utilVars,
                  timeVars, patients, tzOffset, downloaded >>

(***************************************************************************)
(* Patient list and selections (both variants)                             *)
(***************************************************************************)
\* what the patient effects of App.js leave in selectedAbha
AppFirstAbha(idx) ==
  IF idx \notin PatientIdxs THEN ""
  ELSE LET abhas == normalizeAbhaAddresses(PatientAt(idx))
       IN IF Len(abhas) > 0 THEN abhas[1].value ELSE ""

\* the fetch of the patient list succeeds with a non-empty list; App.js also
\* selects the first patient and its first address
LoadPatients ==
  /\ patients = <<>>
  /\ patients' = Patients
  /\ IF variant = "App"
       THEN /\ selectedPatientIdx' = 0
            /\ selectedAbha' = AppFirstAbha(0)
       ELSE UNCHANGED << selectedPatientIdx, selectedAbha >>
  /\ UNCHANGED << variant, uuidCount, practitionerRefId, appForm, lines, files, builds,
                  submissions, practitioner, organization, lineItems, r2Totals, attachments,
                  readers, generated, alerted, addrVars, utilVars, timeVars, tzOffset,
                  console, downloaded >>

\* a patient select that leaves the address selection alone
onPatientChange_KeepAbha(v) ==
  /\ v # selectedPatientIdx
  /\ v \in 0..(Len(patients) - 1) \/ (variant = "R2" /\ v = NoPatient)
  /\ selectedPatientIdx' = v
  /\ UNCHANGED << variant, uuidCount, practitionerRefId, selectedAbha, appForm, lines, files,
                  builds, submissions, practitioner, organization, lineItems, r2Totals,
                  attachments, readers, generated, alerted, addrVars, utilVars, timeVars,
                  ioVars >>
\* onChange of the patient select, v the option picked; in App.js the effect
\* on selectedPatientIdx follows, in R2 "" (null) is an option
onPatientChange(v) ==
  /\ v # selectedPatientIdx
  /\ v \in 0..(Len(patients) - 1) \/ (variant = "R2" /\ v = NoPatient)
  /\ selectedPatientIdx' = v
  /\ selectedAbha' = IF variant = "App" THEN AppFirstAbha(v) ELSE ""
  /\ UNCHANGED << variant, uuidCount, practitionerRefId, appForm, lines, files, builds,
                  submissions, practitioner, organization, lineItems, r2Totals, attachments,
                  readers, generated, alerted, addrVars, utilVars, timeVars, ioVars >>

\* the options of the address select
AbhaOptionValues ==
  IF selectedPatientIdx \notin 0..(Len(patients) - 1) THEN {}
  ELSE IF variant = "App"
    THEN LET abhas == normalizeAbhaAddresses(PatientAt(selectedPatientIdx))
         IN { abhas[i].value : i \in DOMAIN abhas }
  ELSE { "" } \cup Range(getAbhaAddressesForPatient(PatientAt(selectedPatientIdx)))

\* onChange of the address select
onAbhaChange(a) ==
  /\ a \in AbhaOptionValues
  /\ a # selectedAbha
  /\ selectedAbha' = a
  /\ UNCHANGED << variant, uuidCount, practitionerRefId, selectedPatientIdx, appForm, lines,
                  files, builds, submissions, practitioner, organization, lineItems, r2Totals,
                  attachments, readers, generated, alerted, addrVars, utilVars, timeVars,
                  ioVars >>

(***************************************************************************)
(* App.js: edits of the form                                               *)
(***************************************************************************)
addLine ==
  /\ variant = "App"
  /\ lines' = Append(lines, [ description |-> "", quantity |-> Whole(1), unitPrice |-> Whole(0) ])
  /\ UNCHANGED << variant, uuidCount, practitionerRefId, selectedPatientIdx, selectedAbha,
                  appForm, files, builds, submissions, practitioner, organization,
                  lineItems, r2Totals, attachments, readers, generated, alerted, addrVars,
                  utilVars, timeVars, ioVars >>

\* onChange of an input of line i: key is the field, val what was typed
updateLine(i, key, val) ==
  /\ variant = "App"
  /\ i \in DOMAIN lines
  /\ lines' = [ lines EXCEPT ![i] = (key :> val) @@ @ ]
  /\ UNCHANGED << variant, uuidCount, practitionerRefId, selectedPatientIdx, selectedAbha,
                  appForm, files, builds, submissions, practitioner, organization,
                  lineItems, r2Totals, attachments, readers, generated, alerted, addrVars,
                  utilVars, timeVars, ioVars >>

\* a Remove button that removes whatever the list holds
removeLine_Always(i) ==
  /\ variant = "App"
  /\ i \in DOMAIN lines
  /\ lines' = SubSeq(lines, 1, i - 1) \o SubSeq(lines, i + 1, Len(lines))
  /\ UNCHANGED << variant, uuidCount, practitionerRefId, selectedPatientIdx, selectedAbha,
                  appForm, files, builds, submissions, practitioner, organization,
                  lineItems, r2Totals, attachments, readers, generated, alerted, addrVars,
                  utilVars, timeVars, ioVars >>
\* click on the Remove button of line i, disabled while lines.length === 1
removeLine(i) ==
  /\ Len(lines) # 1
  /\ removeLine_Always(i)

onFilesPicked(list) ==
  /\ variant = "App"
  /\ files' = list
  /\ UNCHANGED << variant, uuidCount, practitionerRefId, selectedPatientIdx, selectedAbha,
                  appForm, lines, builds, submissions, practitioner, organization,
                  lineItems, r2Totals, attachments, readers, generated, alerted, addrVars,
                  utilVars, timeVars, ioVars >>

removeFileAtIndex(i) ==
  /\ variant = "App"
  /\ i \in DOMAIN files
  /\ files' = SubSeq(files, 1, i - 1) \o SubSeq(files, i + 1, Len(files))
  /\ UNCHANGED << variant, uuidCount, practitionerRefId, selectedPatientIdx, selectedAbha,
                  appForm, lines, builds, submissions, practitioner, organization,
                  lineItems, r2Totals, attachments, readers, generated, alerted, addrVars,
                  utilVars, timeVars, ioVars >>

\* onChange of one of the Composition inputs: field f becomes v
setAppField(f, v) ==
  /\ variant = "App"
  /\ f \in { "status", "title", "encounterText", "custodianName", "attesterMode",
              "attesterPartyType", "attesterOrgName" }
  /\ status' = IF f = "status" THEN v ELSE status
  /\ title' = IF f = "title" THEN v ELSE title
  /\ encounterText' = IF f = "encounterText" THEN v ELSE encounterText
  /\ custodianName' = IF f = "custodianName" THEN v ELSE custodianName
  /\ attesterMode' = IF f = "attesterMode" THEN v ELSE attesterMode
  /\ attesterPartyType' = IF f = "attesterPartyType" THEN v ELSE attesterPartyType
  /\ attesterOrgName' = IF f = "attesterOrgName" THEN v ELSE attesterOrgName
  /\ appForm' # appForm
  /\ UNCHANGED << variant, uuidCount, practitionerRefId, selectedPatientIdx, selectedAbha,
                  lines, files, builds, submissions, practitioner, organization,
                  lineItems, r2Totals, attachments, readers, generated, alerted, addrVars,
                  utilVars, timeVars, ioVars >>

(***************************************************************************)
(* invoice-record-2.js (R2): attachments                                   *)
(***************************************************************************)
\* handleFileChange: one FileReader per picked file, all started at once
handleFileChange(list) ==
  /\ variant = "R2"
  /\ Len(list) > 0
  /\ Len(readers) + Len(list) <= MaxFiles
  /\ readers' = readers \o [ i \in DOMAIN list |-> [ file |-> list[i], state |-> "reading" ] ]
  /\ UNCHANGED << variant, uuidCount, practitionerRefId, selectedPatientIdx, selectedAbha,
                  appForm, lines, files, builds, submissions, practitioner, organization,
                  lineItems, r2Totals, attachments, generated, alerted, addrVars, utilVars, timeVars, ioVars >>

\* reader.onload of reader j: the attachment is appended with a new id
ReaderOnload(j) ==
  /\ variant = "R2"
  /\ j \in DOMAIN readers
  /\ readers[j].state = "reading"
  /\ LET f == readers[j].file
     IN attachments' = Append(attachments,
           [ id |-> Fresh(uuidCount + 1), name |-> f.name,
             contentType |-> IF f.type # "" THEN f.type ELSE "application/octet-stream",
             data |-> DataUrl(f).payload ])
  /\ uuidCount' = uuidCount + 1
  /\ readers' = [ readers EXCEPT ![j].state = "loaded" ]
  /\ UNCHANGED << variant, practitionerRefId, selectedPatientIdx, selectedAbha,
                  appForm, lines, files, builds, submissions, practitioner, organization,
                  lineItems, r2Totals, generated, alerted, addrVars, utilVars, timeVars, ioVars >>

\* the read of reader j fails: no handler is registered, nothing is stored
ReaderError(j) ==
  /\ variant = "R2"
  /\ j \in DOMAIN readers
  /\ readers[j].state = "reading"
  /\ readers' = [ readers EXCEPT ![j].state = "failed" ]
  /\ UNCHANGED << variant, uuidCount, practitionerRefId, selectedPatientIdx, selectedAbha,
                  appForm, lines, files, builds, submissions, practitioner, organization,
                  lineItems, r2Totals, attachments, generated, alerted, addrVars, utilVars, timeVars, ioVars >>

removeAttachment(id) ==
  /\ variant = "R2"
  /\ \E i \in DOMAIN attachments : attachments[i].id = id
  /\ attachments' = SelectSeq(attachments, LAMBDA a : a.id # id)
  /\ UNCHANGED << variant, uuidCount, practitionerRefId, selectedPatientIdx, selectedAbha,
                  appForm, lines, files, builds, submissions, practitioner, organization,
                  lineItems, r2Totals, readers, generated, alerted, addrVars, utilVars, timeVars, ioVars >>

(***************************************************************************)
(* R2: totals                                                              *)
(***************************************************************************)
\* Number(x || 0)
NumberOr0(x) == Number(IF Truthy(x) THEN x ELSE Fin(0))

\* x || 0
ValOr0(x) == IF Truthy(x) THEN x ELSE Fin(0)

R2Base(li) == Mul(NumberOr0(li.quantity), NumberOr0(li.unitPrice))
R2Tax(li) == Mul(R2Base(li), Div100(NumberOr0(li.taxPercent)))

\* the "auto compute totals" effect: the three texts it stores
AutoNet(lis) == toFixed2(SumNum([ i \in DOMAIN lis |-> R2Base(lis[i]) ]))
AutoTax(lis) == toFixed2(SumNum([ i \in DOMAIN lis |-> R2Tax(lis[i]) ]))
AutoGross(lis) ==
  toFixed2(Add(SumNum([ i \in DOMAIN lis |-> R2Base(lis[i]) ]),
               SumNum([ i \in DOMAIN lis |-> R2Tax(lis[i]) ])))

\* processedLineItems[idx]
ProcessedLineItem(li, idx) ==
  LET base == R2Base(li)
      tax == R2Tax(li)
  IN [ sequence |-> idx,
       chargeItemCodeableConcept |->
         [ display |-> IF li.description # "" THEN li.description ELSE "Item " \o ToString(idx) ],
       priceComponent |->
         << [ type |-> "base", amount |-> [ value |-> Number(toFixed2(base)), currency |-> "INR" ] ] >>
         \o (IF Positive(tax)
               THEN << [ type |-> "tax", amount |-> [ value |-> Number(toFixed2(tax)), currency |-> "INR" ] ] >>
               ELSE <<>>) ]

processedLineItems(lis) == [ i \in DOMAIN lis |-> ProcessedLineItem(lis[i], i) ]

\* (it.priceComponent || []).find(c => c.type === t)?.amount?.value || 0
ComponentValue(it, t) ==
  LET hits == SelectSeq(it.priceComponent, LAMBDA c : c.type = t)
  IN IF Len(hits) > 0 THEN ValOr0(hits[1].amount.value) ELSE Fin(0)

computedNet(items) == SumNum([ i \in DOMAIN items |-> ComponentValue(items[i], "base") ])
computedTax(items) == SumNum([ i \in DOMAIN items |-> ComponentValue(items[i], "tax") ])
computedGross(items) == Add(computedNet(items), computedTax(items))

\* total && !isNaN(Number(total)) ? Number(total) : Number(computed.toFixed(2))
Reconcile(total, computed) ==
  IF Truthy(total) /\ ~isNaN(Number(total)) THEN Number(total) ELSE Number(toFixed2(computed))

finalNet(items) == Reconcile(totalNet, computedNet(items))
finalTax(items) == Reconcile(totalTax, computedTax(items))
finalGross(items) == Reconcile(totalGross, computedGross(items))

(***************************************************************************)
(* R2: buildBundle                                                         *)
(***************************************************************************)
\* the message of the validation that refuses the build, "" when none does
R2Refusal ==
  IF selectedPatientIdx = NoPatient THEN "Please select a patient and ABHA address."
  ELSE IF selectedPatientIdx \notin PatientIdxs THEN "Selected patient not found."
  ELSE IF selectedAbha = "" THEN "Please select an ABHA address."
  ELSE ""

\* the ids of one buildBundle call (n is uuidCount at the call)
R2Ids(n) ==
  LET selPatient == PatientAt(selectedPatientIdx)
      reuse == selPatient.user_ref_id # Null /\ selPatient.user_ref_id # ""
      patientId == IF reuse THEN toLowerCase(selPatient.user_ref_id) ELSE Fresh(n + 1)
      n1 == IF reuse THEN n ELSE n + 1
      compId == Fresh(n1 + 1)
      n2 == n1 + 1
      hasPract == practitioner.id # Null /\ practitioner.id # ""
      practId == IF hasPract THEN toLowerCase(practitioner.id) ELSE Fresh(n2 + 1)
      n3 == IF hasPract THEN n2 ELSE n2 + 1
      hasOrg == organization.id # Null /\ organization.id # ""
      orgId == IF hasOrg THEN organization.id ELSE Fresh(n3 + 1)
      n4 == IF hasOrg THEN n3 ELSE n3 + 1
  IN [ patientId |-> patientId, compId |-> compId, practId |-> practId, orgId |-> orgId,
       invoiceId |-> Fresh(n4 + 1), bundleId |-> Fresh(n4 + 2), used |-> n4 + 2 ]

R2Invoice(ids) ==
  LET items == processedLineItems(lineItems)
  IN [ resourceType |-> "Invoice", id |-> ids.invoiceId,
       date |-> IF invoiceDate # "" THEN invoiceDate ELSE toISOString(NewDate),
       subject |-> [ reference |-> Urn(ids.patientId) ],
       recipient |-> [ reference |-> Urn(ids.patientId) ],
       issuer |-> [ reference |-> Urn(ids.orgId) ],
       totalNet |-> [ value |-> Number(toFixed2(finalNet(items))), currency |-> "INR" ],
       totalGross |-> [ value |-> Number(toFixed2(finalGross(items))), currency |-> "INR" ],
       lineItem |-> items ]

\* the Composition with the author written as "Practitioner/<id>", the form
\* the comment above the author field asks for
R2Composition_PathAuthor(ids) ==
  [ resourceType |-> "Composition", id |-> ids.compId,
    status |-> "final",
    date |-> toISOString(NewDate),
    subject |-> [ reference |-> Urn(ids.patientId) ],
    author |-> << [ reference |-> "Practitioner/" \o ids.practId ] >>,
    attester |-> << [ mode |-> "official", party |-> [ reference |-> Urn(ids.practId) ],
                      time |-> toISOString(NewDate) ] >>,
    section |-> << [ title |-> "Invoice Section",
                     entry |-> << [ reference |-> Urn(ids.invoiceId), type |-> "Invoice" ] >> ] >> ]
R2Composition(ids) ==
  [ resourceType |-> "Composition", id |-> ids.compId,
    status |-> "final",
    date |-> toISOString(NewDate),
    subject |-> [ reference |-> Urn(ids.patientId) ],
    author |-> << [ reference |-> Urn(ids.practId) ] >>,
    attester |-> << [ mode |-> "official", party |-> [ reference |-> Urn(ids.practId) ],
                      time |-> toISOString(NewDate) ] >>,
    section |-> << [ title |-> "Invoice Section",
                     entry |-> << [ reference |-> Urn(ids.invoiceId), type |-> "Invoice" ] >> ] >> ]

R2Binary(att) ==
  [ resourceType |-> "Binary", id |-> att.id, contentType |-> att.contentType, data |-> att.data ]

\* the DocumentReference carrying the id of its Binary (no "doc-" prefix)
R2DocRef_SameId(att) ==
  [ resourceType |-> "DocumentReference", id |-> att.id,
    content |-> << [ attachment |-> [ url |-> Urn(att.id), title |-> att.name,
                                      creation |-> toISOString(NewDate) ] ] >> ]
R2DocRef(att) ==
  [ resourceType |-> "DocumentReference", id |-> "doc-" \o att.id,
    content |-> << [ attachment |-> [ url |-> Urn(att.id), title |-> att.name,
                                      creation |-> toISOString(NewDate) ] ] >> ]

R2Bundle(ids) ==
  LET binaryResources == [ i \in DOMAIN attachments |-> R2Binary(attachments[i]) ]
      docRefs == [ i \in DOMAIN attachments |-> R2DocRef(attachments[i]) ]
  IN [ resourceType |-> "Bundle", id |-> ids.bundleId, type |-> "document",
       timestamp |-> toISOString(NewDate),
       identifier |-> [ system |-> "urn:uuid", value |-> "invoice-bundle-" \o DateNow ],
       entry |-> << [ fullUrl |-> Urn(ids.compId), resource |-> R2Composition(ids) ],
                    [ fullUrl |-> Urn(ids.patientId),
                      resource |-> [ resourceType |-> "Patient", id |-> ids.patientId ] ],
                    [ fullUrl |-> Urn(ids.practId),
                      resource |-> [ resourceType |-> "Practitioner", id |-> ids.practId ] ],
                    [ fullUrl |-> Urn(ids.orgId),
                      resource |-> [ resourceType |-> "Organization", id |-> ids.orgId,
                                     name |-> organization.name ] ],
                    [ fullUrl |-> Urn(ids.invoiceId), resource |-> R2Invoice(ids) ] >>
                 \o [ i \in DOMAIN binaryResources |->
                        [ fullUrl |-> Urn(binaryResources[i].id), resource |-> binaryResources[i] ] ]
                 \o [ i \in DOMAIN docRefs |->
                        [ fullUrl |-> Urn(docRefs[i].id), resource |-> docRefs[i] ] ] ]

\* click on Generate Bundle
buildBundle ==
  /\ variant = "R2"
  /\ IF R2Refusal # ""
       THEN /\ alerted' = << R2Refusal >>
            /\ UNCHANGED << generated, uuidCount >>
       ELSE LET ids == R2Ids(uuidCount)
            IN /\ generated' = Append(generated, R2Bundle(ids))
               /\ uuidCount' = ids.used
               /\ alerted' = alerted
  /\ UNCHANGED << variant, practitionerRefId, selectedPatientIdx, selectedAbha, appForm,
                  lines, files, builds, submissions, practitioner, organization,
                  lineItems, r2Totals, attachments, readers, addrVars, utilVars, timeVars, ioVars >>

(***************************************************************************)
(* Inputs of the model                                                     *)
(***************************************************************************)
\* File objects the picker can hand over (type "" : the browser knows none)
FilePool ==
  { [ name |-> "scan.pdf", type |-> "application/pdf", bytes |-> "pdf-bytes" ],
    [ name |-> "photo.jpg", type |-> "image/jpeg", bytes |-> "jpg-bytes" ],
    [ name |-> "notes", type |-> "", bytes |-> "raw-bytes" ] }

\* one selection of the file picker: distinct files, in any order
FileLists ==
  UNION { { l \in [ 1..k -> FilePool ] : \A i, j \in 1..k : i # j => l[i] # l[j] }
          : k \in 0..MaxFiles }

\* the line lists the builds of Spec run on
AppLineChoices ==
  { << [ description |-> "Consultation", quantity |-> Whole(1), unitPrice |-> Whole(500) ] >>,
    << [ description |-> "", quantity |-> Whole(1), unitPrice |-> Whole(0) ] >> }

DefaultLineItem(id) ==
  [ id |-> id, description |-> "Consultation", quantity |-> Whole(1), unit |-> "each",
    unitPrice |-> Whole(500), taxPercent |-> Whole(0) ]

\* state of the App.js form after construction
AppDefaults ==
  /\ status = "final"
  /\ title = "Invoice Record"
  /\ encounterText = ""
  /\ custodianName = ""
  /\ attesterMode = "professional"
  /\ attesterPartyType = "Practitioner"
  /\ attesterOrgName = ""
  /\ lines = << [ description |-> "Consultation", quantity |-> Whole(1), unitPrice |-> Whole(500) ] >>
  /\ files = <<>>
  /\ builds = <<>>
  /\ submissions = <<>>

\* the first line of the R2 form, as constructed and after an edit to no charge
R2LineChoices ==
  { << DefaultLineItem(Fresh(3)) >>,
    << [ DefaultLineItem(Fresh(3)) EXCEPT !.description = "", !.unitPrice = Whole(0) ] >> }

\* state of the R2 form after construction and its mount effects, the line
\* list being lis
R2FormWith(lis) ==
  /\ practitioner = [ id |-> Fresh(1), name |-> "Dr. ABC", license |-> "LIC-1234" ]
  /\ organization = [ id |-> Fresh(2), name |-> "Default Hospital" ]
  /\ lineItems = lis
  /\ totalNet = AutoNet(lis)
  /\ totalTax = AutoTax(lis)
  /\ totalGross = AutoGross(lis)
  /\ attachments = <<>>
  /\ readers = <<>>
  /\ generated = <<>>

R2Defaults == R2FormWith(<< DefaultLineItem(Fresh(3)) >>)

AddrIdle ==
  /\ addrIn = [ abha_ref |-> Null, nested |-> NoArr, top |-> NoArr ]
  /\ addrOut = [ by |-> "none", out |-> <<>> ]

\* no call of a date normalizer or of safeUuid yet
UtilIdle ==
  /\ dateIn = [ t |-> "undefined" ]
  /\ dateOut = [ by |-> "none" ]
  /\ idIn = [ t |-> "undefined" ]
  /\ idOut = [ by |-> "none" ]

\* the date inputs as the mount leaves them (the day and minute of the mount),
\* and the clock at the mount
MountDateTimeLocal == "2025-08-30T15:04"
MountInvoiceDate == "2025-08-30"
TimeIdle ==
  /\ dateTimeLocal = MountDateTimeLocal
  /\ invoiceDate = MountInvoiceDate
  /\ now = 0

\* the patient list has arrived (or, in App.js with no patient selected, has
\* not), the time zone is IST, nothing was logged or downloaded
IoIdle ==
  /\ patients = IF variant = "App" /\ selectedPatientIdx = NoPatient THEN <<>> ELSE Patients
  /\ tzOffset = -330
  /\ console = <<>>
  /\ downloaded = <<>>

(***************************************************************************)
(* Spec: the builds of both variants                                       *)
(***************************************************************************)
InitApp ==
  /\ variant = "App"
  /\ \E gp \in GpIds :
       /\ practitionerRefId = safeUuid(gp, Fresh(1))
       /\ uuidCount = IF practitionerRefId = Fresh(1) THEN 1 ELSE 0
  /\ selectedPatientIdx \in { NoPatient } \cup PatientIdxs
  /\ selectedAbha = AppFirstAbha(selectedPatientIdx)
  /\ status = "final"
  /\ title \in { "Invoice Record", "  " }
  /\ encounterText \in { "", "OPD visit" }
  /\ custodianName \in { "", "City Hospital" }
  /\ attesterMode \in { "professional", "legal" }
  /\ \E att \in { << "Practitioner", "" >>, << "Practitioner", "Audit Org" >>,
                   << "Organization", "" >>, << "Organization", "Audit Org" >> } :
       /\ attesterPartyType = att[1]
       /\ attesterOrgName = att[2]
  /\ lines \in AppLineChoices
  /\ files \in FileLists
  /\ builds = <<>>
  /\ submissions = <<>>
  /\ R2Defaults
  /\ alerted = <<>>
  /\ AddrIdle
  /\ UtilIdle
  /\ TimeIdle
  /\ IoIdle

InitR2 ==
  /\ variant = "R2"
  /\ uuidCount = 3
  /\ practitionerRefId = ""
  /\ selectedPatientIdx \in { NoPatient } \cup PatientIdxs
  /\ selectedAbha \in { "" } \cup
       ( IF selectedPatientIdx \in PatientIdxs
           THEN Range(getAbhaAddressesForPatient(PatientAt(selectedPatientIdx)))
           ELSE {} )
  /\ AppDefaults
  /\ \E lis \in R2LineChoices : R2FormWith(lis)
  /\ alerted = <<>>
  /\ AddrIdle
  /\ UtilIdle
  /\ TimeIdle
  /\ IoIdle

Init == InitApp \/ InitR2

Next ==
  \/ Len(builds) < MaxBuilds /\ OnBuildBundle
  \/ \E b \in 1..MaxBuilds : FileLoaded(b)
  \/ \E b \in 1..MaxBuilds : FileReadError(b)
  \/ \E list \in FileLists : handleFileChange(list)
  \/ \E j \in 1..MaxFiles : ReaderOnload(j)
  \/ \E j \in 1..MaxFiles : ReaderError(j)
  \/ \E a \in Range(attachments) : removeAttachment(a.id)
  \/ Len(generated) < MaxBuilds /\ buildBundle

Spec == Init /\ [][Next]_vars

(***************************************************************************)
(* invoice-record-2.js (R2): edits of the form and download.  Each setter   *)
(* of lineItems is followed by the effect on [lineItems], which rewrites    *)
(* the three total fields.                                                  *)
(***************************************************************************)
addLineItem ==
  /\ variant = "R2"
  /\ lineItems' = Append(lineItems,
       [ DefaultLineItem(Fresh(uuidCount + 1)) EXCEPT !.description = "", !.unitPrice = Whole(0) ])
  /\ uuidCount' = uuidCount + 1
  /\ totalNet' = AutoNet(lineItems')
  /\ totalTax' = AutoTax(lineItems')
  /\ totalGross' = AutoGross(lineItems')
  /\ UNCHANGED << variant, practitionerRefId, selectedPatientIdx, selectedAbha, appForm,
                  lines, files, builds, submissions, practitioner, organization,
                  attachments, readers, generated, alerted, addrVars, utilVars, timeVars,
                  ioVars >>

\* the setter of updateLineItem alone, with no effect on [lineItems] after it
updateLineItem_KeepTotals(id, patch) ==
  /\ variant = "R2"
  /\ lineItems' = [ i \in DOMAIN lineItems |->
                      IF lineItems[i].id = id THEN patch @@ lineItems[i] ELSE lineItems[i] ]
  /\ UNCHANGED << variant, uuidCount, practitionerRefId, selectedPatientIdx, selectedAbha,
                  appForm, lines, files, builds, submissions, practitioner, organization,
                  r2Totals, attachments, readers, generated, alerted, addrVars, utilVars,
                  timeVars, ioVars >>
\* onChange of an input of the line with this id: patch is the changed field
updateLineItem(id, patch) ==
  /\ variant = "R2"
  /\ lineItems' = [ i \in DOMAIN lineItems |->
                      IF lineItems[i].id = id THEN patch @@ lineItems[i] ELSE lineItems[i] ]
  /\ totalNet' = AutoNet(lineItems')
  /\ totalTax' = AutoTax(lineItems')
  /\ totalGross' = AutoGross(lineItems')
  /\ UNCHANGED << variant, uuidCount, practitionerRefId, selectedPatientIdx, selectedAbha,
                  appForm, lines, files, builds, submissions, practitioner, organization,
                  attachments, readers, generated, alerted, addrVars, utilVars, timeVars,
                  ioVars >>

\* click on the Remove button of the line with this id, disabled while
\* lineItems.length <= 1
removeLineItem(id) ==
  /\ variant = "R2"
  /\ Len(lineItems) > 1
  /\ lineItems' = SelectSeq(lineItems, LAMBDA li : li.id # id)
  /\ totalNet' = AutoNet(lineItems')
  /\ totalTax' = AutoTax(lineItems')
  /\ totalGross' = AutoGross(lineItems')
  /\ UNCHANGED << variant, uuidCount, practitionerRefId, selectedPatientIdx, selectedAbha,
                  appForm, lines, files, builds, submissions, practitioner, organization,
                  attachments, readers, generated, alerted, addrVars, utilVars, timeVars,
                  ioVars >>

\* onChange of a total input: f is the field, text what was typed
setTotal(f, text) ==
  /\ variant = "R2"
  /\ f \in { "net", "tax", "gross" }
  /\ totalNet' = IF f = "net" THEN text ELSE totalNet
  /\ totalTax' = IF f = "tax" THEN text ELSE totalTax
  /\ totalGross' = IF f = "gross" THEN text ELSE totalGross
  /\ r2Totals' # r2Totals
  /\ UNCHANGED << variant, uuidCount, practitionerRefId, selectedPatientIdx, selectedAbha,
                  appForm, lines, files, builds, submissions, practitioner, organization,
                  lineItems, attachments, readers, generated, alerted, addrVars, utilVars,
                  timeVars, ioVars >>

\* JSON.stringify(bundle, null, 2): the text that parses back to the bundle
JSONstringify(bundle) == [ json |-> bundle ]

\* a generatedBundleJson that keeps the text of the first successful build
generatedBundleJson_First ==
  IF generated = <<>> THEN "" ELSE JSONstringify(generated[1])
\* the state generatedBundleJson: the text the last successful build stored
generatedBundleJson ==
  IF generated = <<>> THEN "" ELSE JSONstringify(generated[Len(generated)])

\* click on Download Bundle, disabled while generatedBundleJson is empty
downloadBundle ==
  /\ variant = "R2"
  /\ generated # <<>>
  /\ downloaded' = Append(downloaded, generatedBundleJson)
  /\ UNCHANGED << variant, uuidCount, practitionerRefId, selectedPatientIdx, selectedAbha,
                  appForm, lines, files, builds, submissions, practitioner, organization,
                  lineItems, r2Totals, attachments, readers, generated, alerted, addrVars,
                  utilVars, timeVars, patients, tzOffset, console >>

(***************************************************************************)
(* SpecTwice: several builds on inputs that do not change, while the clock *)
(* advances                                                                *)
(***************************************************************************)
\* a second passes
Tick ==
  /\ now < MaxClock
  /\ now' = now + 1
  /\ UNCHANGED << variant, uuidCount, practitionerRefId, selectedPatientIdx, selectedAbha,
                  appForm, lines, files, builds, submissions, practitioner, organization,
                  lineItems, r2Totals, attachments, readers, generated, alerted, addrVars,
                  utilVars, dateTimeLocal, invoiceDate, ioVars >>

\* nothing picked, or the first file of the pool
TwiceFiles == { l \in FileLists : Len(l) = 0 \/ (Len(l) = 1 /\ l[1].name = "scan.pdf") }

\* getTimezoneOffset() where the page runs: IST (+05:30), UTC, New York
\* (-05:00), Newfoundland (-03:30), Nepal (+05:45)
TzOffsets == { 0 - 330, 0, 300, 210, 0 - 345 }

InitTwiceApp ==
  /\ variant = "App"
  /\ \E gp \in GpIds :
       /\ practitionerRefId = safeUuid(gp, Fresh(1))
       /\ uuidCount = IF practitionerRefId = Fresh(1) THEN 1 ELSE 0
  /\ selectedPatientIdx = 0
  /\ selectedAbha = AppFirstAbha(selectedPatientIdx)
  /\ status = "final"
  /\ title = "Invoice Record"
  /\ encounterText \in { "", "OPD visit" }
  /\ custodianName = ""
  /\ attesterMode = "professional"
  /\ attesterPartyType = "Practitioner"
  /\ attesterOrgName = ""
  /\ lines \in { l \in AppLineChoices : l[1].description # "" }
  /\ files \in TwiceFiles
  /\ builds = <<>>
  /\ submissions = <<>>
  /\ R2Defaults
  /\ alerted = <<>>
  /\ AddrIdle
  /\ UtilIdle
  /\ dateTimeLocal \in { "", MountDateTimeLocal }
  /\ invoiceDate = MountInvoiceDate
  /\ now = 0
  /\ patients = Patients
  /\ tzOffset \in TzOffsets
  /\ console = <<>>
  /\ downloaded = <<>>

InitTwiceR2 ==
  /\ variant = "R2"
  /\ uuidCount = 3
  /\ practitionerRefId = ""
  /\ selectedPatientIdx \in PatientIdxs
  /\ selectedAbha \in Range(getAbhaAddressesForPatient(PatientAt(selectedPatientIdx)))
  /\ AppDefaults
  /\ R2Defaults
  /\ alerted = <<>>
  /\ AddrIdle
  /\ UtilIdle
  /\ dateTimeLocal = MountDateTimeLocal
  /\ invoiceDate \in { "", MountInvoiceDate }
  /\ now = 0
  /\ patients = Patients
  /\ tzOffset \in TzOffsets
  /\ console = <<>>
  /\ downloaded = <<>>

InitTwice == InitTwiceApp \/ InitTwiceR2

\* the attachments are picked and loaded before the first build
NextTwice ==
  \/ Tick
  \/ Len(builds) < MaxRuns /\ OnBuildBundle
  \/ \E b \in 1..MaxRuns : FileLoaded(b)
  \/ generated = <<>> /\ \E list \in TwiceFiles : handleFileChange(list)
  \/ generated = <<>> /\ \E j \in 1..MaxFiles : ReaderOnload(j)
  \/ (Len(generated) < MaxRuns /\ \A j \in DOMAIN readers : readers[j].state # "reading")
       /\ buildBundle

SpecTwice == InitTwice /\ [][NextTwice]_vars

(***************************************************************************)
(* SpecForm: the form from its mount on, under the edits of the user; in R2 *)
(* with builds up to the first that succeeds                                *)
(***************************************************************************)
InitFormApp ==
  /\ variant = "App"
  /\ practitionerRefId = safeUuid(Null, Fresh(1))
  /\ uuidCount = 1
  /\ selectedPatientIdx = NoPatient
  /\ selectedAbha = ""
  /\ AppDefaults
  /\ R2Defaults
  /\ alerted = <<>>
  /\ AddrIdle
  /\ UtilIdle
  /\ TimeIdle
  /\ IoIdle

InitFormR2 ==
  /\ variant = "R2"
  /\ uuidCount = 3
  /\ practitionerRefId = ""
  /\ selectedPatientIdx = NoPatient
  /\ selectedAbha = ""
  /\ AppDefaults
  /\ R2Defaults
  /\ alerted = <<>>
  /\ AddrIdle
  /\ UtilIdle
  /\ TimeIdle
  /\ patients = <<>>
  /\ tzOffset = -330
  /\ console = <<>>
  /\ downloaded = <<>>

InitForm == InitFormApp \/ InitFormR2

\* what the user types into a line, a Composition input, a total
LineEdits == { << "quantity", Lit(0) >>, << "description", "X-ray" >> }
FieldEdits ==
  { << "title", "  " >>, << "title", "Invoice Record" >>,
    << "attesterPartyType", "Organization" >>, << "attesterPartyType", "Practitioner" >> }
ItemEdits == { [ quantity |-> Whole(2) ] }

NextForm ==
  \/ LoadPatients
  \/ \E v \in { NoPatient } \cup PatientIdxs : onPatientChange(v)
  \/ \E a \in AbhaOptionValues : onAbhaChange(a)
  \/ Len(lines) < MaxLines /\ addLine
  \/ \E i \in 1..MaxLines, e \in LineEdits : updateLine(i, e[1], e[2])
  \/ \E i \in 1..MaxLines : removeLine(i)
  \/ \E list \in TwiceFiles : onFilesPicked(list)
  \/ \E i \in 1..MaxFiles : removeFileAtIndex(i)
  \/ \E e \in FieldEdits : setAppField(e[1], e[2])
  \/ (Len(lineItems) < MaxLines /\ uuidCount < MaxIds) /\ addLineItem
  \/ \E li \in Range(lineItems), e \in ItemEdits : updateLineItem(li.id, e)
  \/ \E li \in Range(lineItems) : removeLineItem(li.id)
  \/ \E f \in { "net", "tax", "gross" } : setTotal(f, Lit(125000))
  \/ generated = <<>> /\ buildBundle

SpecForm == InitForm /\ [][NextForm]_vars

(***************************************************************************)
(* SpecEdit: App.js with the list loaded and a patient selected; builds    *)
(* overlap, the form is edited while a build waits for a file read, and    *)
(* every post settles either way.                                          *)
(***************************************************************************)
InitEdit ==
  /\ variant = "App"
  /\ practitionerRefId = safeUuid(Null, Fresh(1))
  /\ uuidCount = 1
  /\ selectedPatientIdx = 0
  /\ selectedAbha = AppFirstAbha(0)
  /\ status = "final"
  /\ title = "Invoice Record"
  /\ encounterText = ""
  /\ custodianName = ""
  /\ attesterMode = "professional"
  /\ attesterPartyType = "Practitioner"
  /\ attesterOrgName = ""
  /\ lines = << [ description |-> "Consultation", quantity |-> Whole(1), unitPrice |-> Whole(500) ] >>
  /\ files \in TwiceFiles
  /\ builds = <<>>
  /\ submissions = <<>>
  /\ R2Defaults
  /\ alerted = <<>>
  /\ AddrIdle
  /\ UtilIdle
  /\ TimeIdle
  /\ IoIdle

\* onBuildBundle is suspended at an await
Suspended == \E b \in DOMAIN builds : builds[b].pc = "reading"

NextEdit ==
  \/ Len(builds) < MaxRuns /\ OnBuildBundle
  \/ \E b \in 1..MaxRuns : FileLoaded(b)
  \/ \E b \in 1..MaxRuns : FileReadError(b)
  \/ \E k \in 1..MaxRuns : PostThen(k)
  \/ \E k \in 1..MaxRuns : PostCatch(k)
  \/ Suspended /\ \E v \in PatientIdxs : onPatientChange(v)
  \/ Suspended /\ updateLine(1, "quantity", Lit(2 * Scale))
  \/ Suspended /\ setAppField("title", "Revised")
  \/ Suspended /\ \E list \in TwiceFiles : onFilesPicked(list)
  \/ Suspended /\ removeFileAtIndex(1)

SpecEdit == InitEdit /\ [][NextEdit]_vars

(***************************************************************************)
(* SpecDownload: invoice-record-2.js with the list loaded; builds (refused  *)
(* or not), downloads, and edits of the selections and of the first line.  *)
(***************************************************************************)
InitDownload ==
  /\ variant = "R2"
  /\ uuidCount = 3
  /\ practitionerRefId = ""
  /\ selectedPatientIdx = NoPatient
  /\ selectedAbha = ""
  /\ AppDefaults
  /\ R2Defaults
  /\ alerted = <<>>
  /\ AddrIdle
  /\ UtilIdle
  /\ TimeIdle
  /\ patients = Patients
  /\ tzOffset = -330
  /\ console = <<>>
  /\ downloaded = <<>>

NextDownload ==
  \/ Len(generated) < MaxRuns /\ buildBundle
  \/ Len(downloaded) < MaxRuns /\ downloadBundle
  \/ \E v \in { NoPatient } \cup PatientIdxs : onPatientChange(v)
  \/ \E a \in AbhaOptionValues : onAbhaChange(a)
  \/ \E q \in { Whole(1), Whole(2) } : updateLineItem(Fresh(3), [ quantity |-> q ])

SpecDownload == InitDownload /\ [][NextDownload]_vars

(***************************************************************************)
(* SpecTotals: builds over line lists and total fields                     *)
(***************************************************************************)
\* quantity, unit price and tax percent of the lines drawn: 0.6 x 0.01 (a
\* fractional amount below one hundredth), 1 x 5.00, 2 x 5.00, 0 x 5.00 and
\* -1 x -5.00 (the number inputs accept typed negative values)
TotalsLinePool ==
  { [ quantity |-> Fin(6000), unitPrice |-> Fin(100), taxPercent |-> Whole(0) ],
    [ quantity |-> Fin(6000), unitPrice |-> Fin(100), taxPercent |-> Whole(10) ],
    [ quantity |-> Whole(1), unitPrice |-> Whole(5), taxPercent |-> Whole(0) ],
    [ quantity |-> Whole(2), unitPrice |-> Whole(5), taxPercent |-> Whole(10) ],
    [ quantity |-> Whole(0), unitPrice |-> Whole(5), taxPercent |-> Whole(0) ],
    [ quantity |-> Whole(0 - 1), unitPrice |-> Whole(0 - 5), taxPercent |-> Whole(0) ] }

TotalsLineLists == UNION { [ 1..k -> TotalsLinePool ] : k \in 1..MaxLines }

\* what a user can leave in a total field: "", "  ", "abc", "Infinity", "12.50"
OverrideTexts == { EmptyText, BlankText, WordText, InfinityText, Lit(125000) }

InitTotalsApp ==
  /\ variant = "App"
  /\ practitionerRefId = Fresh(1)
  /\ uuidCount = 1
  /\ selectedPatientIdx = 0
  /\ selectedAbha = AppFirstAbha(0)
  /\ status = "final"
  /\ title = "Invoice Record"
  /\ encounterText = ""
  /\ custodianName = ""
  /\ attesterMode = "professional"
  /\ attesterPartyType = "Practitioner"
  /\ attesterOrgName = ""
  /\ \E l \in TotalsLineLists :
       lines = [ i \in DOMAIN l |-> [ description |-> "Charge " \o ToString(i),
                                      quantity |-> l[i].quantity,
                                      unitPrice |-> l[i].unitPrice ] ]
  /\ files = <<>>
  /\ builds = <<>>
  /\ submissions = <<>>
  /\ R2Defaults
  /\ alerted = <<>>
  /\ AddrIdle
  /\ UtilIdle
  /\ TimeIdle
  /\ IoIdle

InitTotalsR2 ==
  /\ variant = "R2"
  /\ practitionerRefId = ""
  /\ selectedPatientIdx = 0
  /\ selectedAbha = "asha@abdm"
  /\ AppDefaults
  /\ practitioner = [ id |-> Fresh(1), name |-> "Dr. ABC", license |-> "LIC-1234" ]
  /\ organization = [ id |-> Fresh(2), name |-> "Default Hospital" ]
  /\ \E l \in TotalsLineLists :
       lineItems = [ i \in DOMAIN l |-> [ id |-> Fresh(2 + i), description |-> "Consultation",
                                          quantity |-> l[i].quantity, unit |-> "each",
                                          unitPrice |-> l[i].unitPrice,
                                          taxPercent |-> l[i].taxPercent ] ]
  /\ uuidCount = 2 + Len(lineItems)
  /\ totalNet \in { AutoNet(lineItems) } \cup OverrideTexts
  /\ totalTax \in { AutoTax(lineItems) } \cup OverrideTexts
  /\ totalGross \in { AutoGross(lineItems) } \cup OverrideTexts
  /\ attachments = <<>>
  /\ readers = <<>>
  /\ generated = <<>>
  /\ alerted = <<>>
  /\ AddrIdle
  /\ UtilIdle
  /\ TimeIdle
  /\ IoIdle

InitTotals == InitTotalsApp \/ InitTotalsR2

NextTotals ==
  \/ Len(builds) < MaxBuilds /\ OnBuildBundle
  \/ Len(generated) < MaxBuilds /\ buildBundle

SpecTotals == InitTotals /\ [][NextTotals]_vars

(***************************************************************************)
(* SpecAddr: the contact normalizers over address lists                    *)
(***************************************************************************)
AddrPool ==
  { StrItem("c"), ObjItem("a", FALSE), ObjItem("b", TRUE), NullItem, OpaqueItem(FALSE) }

AddrLists == UNION { [ 1..k -> AddrPool ] : k \in 0..MaxAddr }

InitAddr ==
  /\ variant \in { "App", "R2" }
  /\ practitionerRefId = IF variant = "App" THEN Fresh(1) ELSE ""
  /\ uuidCount = IF variant = "App" THEN 1 ELSE 3
  /\ selectedPatientIdx = NoPatient
  /\ selectedAbha = ""
  /\ AppDefaults
  /\ R2Defaults
  /\ alerted = <<>>
  /\ addrIn \in [ abha_ref : { Null, "b" },
                  nested : { NoArr } \cup { Arr(l) : l \in AddrLists },
                  top : { NoArr, Arr(<< StrItem("c"), StrItem("a") >>) } ]
  /\ addrOut = [ by |-> "none", out |-> <<>> ]
  /\ UtilIdle
  /\ TimeIdle
  /\ IoIdle

\* App.js lists the addresses of the patient object
CallNormalizeAbhaAddresses ==
  /\ variant = "App"
  /\ addrOut.by = "none"
  /\ addrOut' = [ by |-> "App", out |-> normalizeAbhaAddresses(addrIn) ]
  /\ UNCHANGED << variant, uuidCount, practitionerRefId, selectedPatientIdx, selectedAbha,
                  appForm, lines, files, builds, submissions, practitioner, organization,
                  lineItems, r2Totals, attachments, readers, generated, alerted, addrIn, utilVars, timeVars, ioVars >>

\* R2 lists the addresses of the patient object
CallGetAbhaAddressesForPatient ==
  /\ variant = "R2"
  /\ addrOut.by = "none"
  /\ addrOut' = [ by |-> "R2", out |-> getAbhaAddressesForPatient(addrIn) ]
  /\ UNCHANGED << variant, uuidCount, practitionerRefId, selectedPatientIdx, selectedAbha,
                  appForm, lines, files, builds, submissions, practitioner, organization,
                  lineItems, r2Totals, attachments, readers, generated, alerted, addrIn, utilVars, timeVars, ioVars >>

NextAddr ==
  \/ CallNormalizeAbhaAddresses
  \/ CallGetAbhaAddressesForPatient

SpecAddr == InitAddr /\ [][NextAddr]_vars

(***************************************************************************)
(* SpecUtil: the date normalizers and safeUuid over their inputs           *)
(***************************************************************************)
\* dates as day, month, year texts joined by one or two separators
DmyTexts ==
  { d \o << s1 >> \o m \o << s2 >> \o y :
      d \in { << "5" >>, << "0", "5" >> },
      s1 \in { "-", "/" },
      m \in { << "8" >>, << "1", "2" >> },
      s2 \in { "-", "/" },
      y \in { << "1", "9", "9", "0" >>, << "9", "0" >> } }

DateInputs ==
  { UndefinedVal, NullVal, Str(<<>>),
    Str(<< "2", "0", "2", "4", "-", "0", "1", "-", "0", "1" >>),
    Str(<< "n", "o", "t", "-", "a", "-", "d", "a", "t", "e" >>),
    Str(<< "h", "e", "l", "l", "o" >>),
    Str(<< " ", "0", "5", "-", "0", "8", "-", "1", "9", "9", "0", " " >>),
    Str(<< "1", "/", "2" >>) }
  \cup { Str(t) : t \in DmyTexts }

\* candidates of safeUuid: absent, empty, an identifier in lower, upper and
\* mixed case, an identifier of version 6, a short name, and numbers
IdInputs ==
  { UndefinedVal, NullVal, Str(<<>>),
    Str(<< "3", "f", "2", "a", "1", "b", "4", "c", "-", "0", "d", "9", "e", "-", "4", "f", "1", "a", "-", "8", "b", "2", "c", "-", "5", "d", "6", "e", "7", "f", "8", "0", "9", "1", "a", "2" >>),
    Str(<< "3", "F", "2", "A", "1", "B", "4", "C", "-", "0", "D", "9", "E", "-", "4", "F", "1", "A", "-", "8", "B", "2", "C", "-", "5", "D", "6", "E", "7", "F", "8", "0", "9", "1", "A", "2" >>),
    Str(<< "3", "F", "2", "a", "1", "B", "4", "c", "-", "0", "d", "9", "E", "-", "4", "f", "1", "a", "-", "8", "B", "2", "c", "-", "5", "d", "6", "e", "7", "f", "8", "0", "9", "1", "A", "2" >>),
    Str(<< "3", "f", "2", "a", "1", "b", "4", "c", "-", "0", "d", "9", "e", "-", "6", "f", "1", "a", "-", "8", "b", "2", "c", "-", "5", "d", "6", "e", "7", "f", "8", "0", "9", "1", "a", "2" >>),
    Str(<< "g", "p", "-", "1", "7" >>),
    Num(17), Num(0) }

InitUtil ==
  /\ variant \in { "App", "R2" }
  /\ practitionerRefId = IF variant = "App" THEN Fresh(1) ELSE ""
  /\ uuidCount = IF variant = "App" THEN 1 ELSE 3
  /\ selectedPatientIdx = NoPatient
  /\ selectedAbha = ""
  /\ AppDefaults
  /\ R2Defaults
  /\ alerted = <<>>
  /\ AddrIdle
  /\ TimeIdle
  /\ IoIdle
  /\ dateIn \in DateInputs
  /\ dateOut = [ by |-> "none" ]
  /\ idIn \in IF variant = "App" THEN IdInputs ELSE { UndefinedVal }
  /\ idOut = [ by |-> "none" ]

\* App.js: ddmmyyyyToISO(p.dob)
CallDdmmyyyyToISO ==
  /\ variant = "App"
  /\ dateOut.by = "none"
  /\ dateOut' = [ by |-> "ddmmyyyyToISO", res |-> ddmmyyyyToISO(dateIn) ]
  /\ UNCHANGED << variant, uuidCount, practitionerRefId, selectedPatientIdx, selectedAbha,
                  appForm, lines, files, builds, submissions, practitioner, organization,
                  lineItems, r2Totals, attachments, readers, generated, alerted, addrVars,
                  dateIn, idIn, idOut, timeVars, ioVars >>

\* R2: toFhirDate(selPatient.dob)
CallToFhirDate ==
  /\ variant = "R2"
  /\ dateOut.by = "none"
  /\ \E valid \in ( IF dateIn.t = "string" THEN DateIsValid(dateIn.s) ELSE { FALSE } ) :
       dateOut' = [ by |-> "toFhirDate", res |-> toFhirDate(dateIn, valid) ]
  /\ UNCHANGED << variant, uuidCount, practitionerRefId, selectedPatientIdx, selectedAbha,
                  appForm, lines, files, builds, submissions, practitioner, organization,
                  lineItems, r2Totals, attachments, readers, generated, alerted, addrVars,
                  dateIn, idIn, idOut, timeVars, ioVars >>

\* App.js: safeUuid(gp?.id)
CallSafeUuid ==
  /\ variant = "App"
  /\ idOut.by = "none"
  /\ \E fresh \in FreshTexts :
       idOut' = [ by |-> "safeUuid", fresh |-> fresh, res |-> SafeUuidText(idIn, fresh) ]
  /\ UNCHANGED << variant, uuidCount, practitionerRefId, selectedPatientIdx, selectedAbha,
                  appForm, lines, files, builds, submissions, practitioner, organization,
                  lineItems, r2Totals, attachments, readers, generated, alerted, addrVars,
                  dateIn, dateOut, idIn, timeVars, ioVars >>

NextUtil ==
  \/ CallDdmmyyyyToISO
  \/ CallToFhirDate
  \/ CallSafeUuid

SpecUtil == InitUtil /\ [][NextUtil]_vars

(***************************************************************************)
(* Bundles and references                                                  *)
(***************************************************************************)
\* every bundle a build has produced so far: submitted (App.js) or returned
\* and stored (R2)
ProducedBundles ==
  { submissions[i].bundle : i \in DOMAIN submissions } \cup Range(generated)

Resources(bundle) == { bundle.entry[i].resource : i \in DOMAIN bundle.entry }
OfType(bundle, t) == { r \in Resources(bundle) : r.resourceType = t }

\* a reference field that a record may or may not carry
OptRef(r, field) == IF field \in DOMAIN r THEN { r[field].reference } ELSE {}

\* every reference a record embeds
RefsOf(r) ==
  CASE r.resourceType = "Composition" ->
         { r.subject.reference }
         \cup { r.author[i].reference : i \in DOMAIN r.author }
         \cup { r.attester[i].party.reference : i \in DOMAIN r.attester }
         \cup OptRef(r, "encounter") \cup OptRef(r, "custodian")
         \cup UNION { { r.section[i].entry[j].reference : j \in DOMAIN r.section[i].entry }
                      : i \in DOMAIN r.section }
    [] r.resourceType = "Invoice" ->
         { r.subject.reference } \cup OptRef(r, "recipient") \cup OptRef(r, "issuer")
         \cup ( IF "participant" \in DOMAIN r
                  THEN { r.participant[i].actor.reference : i \in DOMAIN r.participant }
                  ELSE {} )
    [] r.resourceType = "Encounter" -> { r.subject.reference }
    [] r.resourceType = "DocumentReference" ->
         OptRef(r, "subject")
         \cup { r.content[i].attachment.url : i \in DOMAIN r.content }
    [] OTHER -> {}

Locators(bundle) == { bundle.entry[i].fullUrl : i \in DOMAIN bundle.entry }

C2_LocatorIsPrefixPlusId ==
  \A bundle \in ProducedBundles :
    \A i \in DOMAIN bundle.entry :
      bundle.entry[i].fullUrl = "urn:uuid:" \o bundle.entry[i].resource.id

\* an R2 bundle with an attachment, hence with a "doc-" identifier, exists
C2_Witness ==
  \E bundle \in Range(generated) : OfType(bundle, "DocumentReference") # {}

R2Produces == Len(generated') > Len(generated)
NewR2Bundle == generated'[Len(generated')]

\* the App.js invocations whose bundle this step submits
Finishing ==
  { b \in DOMAIN builds' :
      /\ builds'[b].pc = "done"
      /\ (b \in DOMAIN builds => builds[b].pc # "done") }

\* the bundle submitted for the invocation with closure c
SubmittedFor(c, subs) ==
  { subs[i].bundle : i \in { k \in DOMAIN subs : subs[k].bundle.entry[1].resource.id = c.ids.compId } }

\* the step is a click on the build button
BuildClick ==
  \/ alerted' # alerted
  \/ Len(builds') > Len(builds)
  \/ R2Produces

Payloads(bundle) == { r.data : r \in OfType(bundle, "Binary") }
FilePayloads == { DataUrl(f).payload : f \in FilePool }

\* C4: a bundle built from zero attachments holds exactly one placeholder
\* Binary and exactly one DocumentReference pointing at it; the attachment
\* set of a produced bundle is never empty.
C4_PlaceholderWhenNoAttachment ==
  \A bundle \in ProducedBundles :
    LET bins == OfType(bundle, "Binary")
        drs == OfType(bundle, "DocumentReference")
    IN /\ bins # {}
       /\ drs # {}
       /\ (Payloads(bundle) \cap FilePayloads = {}) =>
            /\ Cardinality(bins) = 1
            /\ Cardinality(drs) = 1
            /\ \A b \in bins : \A d \in drs :
                 /\ b.data = PLACEHOLDER_PDF_B64
                 /\ d.content[1].attachment.url = Urn(b.id)

\* C5: no Binary is constructed while the read of a selected file is still
\* pending, and no bundle is produced that lacks the payload of a file the
\* caller selected.
C5_NoBuildWhileReadPending ==
  [][ /\ R2Produces =>
           /\ \A j \in DOMAIN readers : readers[j].state # "reading"
           /\ \A i \in DOMAIN attachments : attachments[i].data \in Payloads(NewR2Bundle)
      /\ \A b \in Finishing :
           \A bundle \in SubmittedFor(builds'[b], submissions') :
             \A i \in DOMAIN builds'[b].files :
               fileToBase64NoPrefix(builds'[b].files[i]) \in Payloads(bundle) ]_vars

\* C6: when the read of any selected file fails, the whole build is aborted:
\* no bundle is produced or submitted.
C6_ReadFailureAbortsBuild ==
  [][ /\ R2Produces => \A j \in DOMAIN readers : readers[j].state # "failed"
      /\ \A b \in DOMAIN builds' :
           builds'[b].pc = "aborted" => SubmittedFor(builds'[b], submissions') = {} ]_vars

NoPatientSelected == selectedPatientIdx \notin PatientIdxs
NoChargeNorAttachment ==
  IF variant = "App"
    THEN /\ \A i \in DOMAIN lines : ~Positive(LineAmount(lines[i]))
         /\ Len(files) = 0
    ELSE /\ \A i \in DOMAIN lineItems : ~Positive(R2Base(lineItems[i]))
         /\ Len(attachments) = 0

PatientErrors == { "Select a patient (required).", "Please select a patient and ABHA address." }
ChargeErrors ==
  { "Add at least one invoice line with amount > 0, or upload at least one document." }

\* C7: a build with no patient selected and with neither a charge line nor an
\* attachment is refused with both errors in one list and produces no bundle;
\* more generally every validation error present is reported in that list.
C7_AllValidationErrorsReported ==
  [][ BuildClick =>
        /\ NoPatientSelected => Range(alerted') \cap PatientErrors # {}
        /\ NoChargeNorAttachment => Range(alerted') \cap ChargeErrors # {}
        /\ (NoPatientSelected \/ NoChargeNorAttachment) =>
             /\ ~R2Produces
             /\ builds' = builds
             /\ submissions' = submissions ]_vars

(***************************************************************************)
(* Totals                                                                  *)
(***************************************************************************)
\* n rounded once to 2 decimals
RoundOnce(n) == IF n.k = "fin" THEN Fin(Round2(n.v)) ELSE n

InvoiceOf(bundle) == CHOOSE r \in OfType(bundle, "Invoice") : TRUE

\* the user has supplied no figure for a total field: it is empty or still
\* holds the text the form computed
NoOverride ==
  /\ totalNet \in { EmptyText, AutoNet(lineItems) }
  /\ totalTax \in { EmptyText, AutoTax(lineItems) }
  /\ totalGross \in { EmptyText, AutoGross(lineItems) }

\* C8: with no user override, the Invoice's totalNet is the sum over all lines
\* of quantity x unitPrice, rounded once to 2 decimals, and the gross is net
\* plus tax.
C8_NetIsSumRoundedOnce ==
  [][ /\ (R2Produces /\ NoOverride) =>
           LET inv == InvoiceOf(NewR2Bundle)
               items == processedLineItems(lineItems)
           IN /\ inv.totalNet.value =
                   RoundOnce(SumNum([ i \in DOMAIN lineItems |->
                                        Mul(lineItems[i].quantity, lineItems[i].unitPrice) ]))
              /\ inv.totalGross.value = Add(inv.totalNet.value, finalTax(items))
      /\ \A b \in Finishing :
           \A bundle \in SubmittedFor(builds'[b], submissions') :
             LET inv == InvoiceOf(bundle)
                 ls == builds'[b].lines
             IN /\ inv.totalNet.value =
                     RoundOnce(SumNum([ i \in DOMAIN ls |-> Mul(ls[i].quantity, ls[i].unitPrice) ]))
                /\ inv.totalGross.value = inv.totalNet.value ]_vars

\* the text is the decimal literal of a finite number
ParsesFinite(text) == text.k = "lit"

\* the figure the reconciler owes for a total field
Reconciled(text, computed) ==
  IF ParsesFinite(text) THEN Fin(text.v) ELSE RoundOnce(computed)

\* C9: each reconciled figure (net, tax, gross) is the override when the
\* override parses as a finite number, and the computed figure otherwise
\* (empty, non-numeric, white space only, "Infinity").
C9_OverrideIffFiniteNumber ==
  [][ R2Produces =>
        LET inv == InvoiceOf(NewR2Bundle)
            items == processedLineItems(lineItems)
        IN /\ finalNet(items) = Reconciled(totalNet, computedNet(items))
           /\ finalTax(items) = Reconciled(totalTax, computedTax(items))
           /\ finalGross(items) = Reconciled(totalGross, computedGross(items))
           /\ inv.totalNet.value = RoundOnce(Reconciled(totalNet, computedNet(items)))
           /\ inv.totalGross.value = RoundOnce(Reconciled(totalGross, computedGross(items))) ]_vars

(***************************************************************************)
(* Address order                                                           *)
(***************************************************************************)
\* the list the normalizer read
AddrSource ==
  IF addrIn.nested.isArray THEN addrIn.nested.items
  ELSE IF addrOut.by = "App" /\ addrIn.top.isArray THEN addrIn.top.items
  ELSE <<>>

OutValue(i) == IF addrOut.by = "App" THEN addrOut.out[i].value ELSE addrOut.out[i]

\* the address at position i of the output is a primary one
OutPrimary(i) ==
  IF addrOut.by = "App" THEN addrOut.out[i].primary
  ELSE \E k \in DOMAIN AddrSource :
         /\ AddrSource[k].t = "object"
         /\ AddrSource[k].address = addrOut.out[i]
         /\ AddrSource[k].isPrimary

\* C10: the normalized list has the primary addresses first, then the rest,
\* each group in ascending lexical order of value; the list of "a" (not
\* primary) and "b" (primary) normalizes to "b", "a".
C10_PrimaryFirstThenLexical ==
  addrOut.by # "none" =>
    /\ \A i, j \in DOMAIN addrOut.out :
         i < j =>
           /\ OutPrimary(j) => OutPrimary(i)
           /\ (OutPrimary(i) = OutPrimary(j)) => localeCompare(OutValue(i), OutValue(j)) <= 0
    /\ (AddrSource = << ObjItem("a", FALSE), ObjItem("b", TRUE) >> /\ addrIn.abha_ref = Null) =>
         [ i \in DOMAIN addrOut.out |-> OutValue(i) ] = << "b", "a" >>

(***************************************************************************)
(* Dates and identifiers                                                   *)
(***************************************************************************)
\* the text is day, month and 4-digit year joined by the separator sep
IsDmy(chars, sep) ==
  LET parts == Split(chars, sep)
  IN /\ Len(parts) = 3
     /\ \A i \in 1..3 : AllDigits(parts[i])
     /\ Len(parts[1]) \in { 1, 2 }
     /\ Len(parts[2]) \in { 1, 2 }
     /\ Len(parts[3]) = 4

\* yyyy-mm-dd of such a text
DmyAsIso(chars, sep) ==
  LET parts == Split(chars, sep)
  IN parts[3] \o << "-" >> \o PadStart2(parts[2]) \o << "-" >> \o PadStart2(parts[1])

\* the value is in none of the accepted date forms: absent, or a text
\* without any digit
NoDateForm(v) == v.t # "string" \/ ~\E i \in DOMAIN v.s : v.s[i] \in Digits

\* C11: the date normalizer maps every dd-mm-yyyy or dd/mm/yyyy input to
\* yyyy-mm-dd (first group the day, second the month), returns a yyyy-mm-dd
\* input unchanged, and returns undefined for every input in none of the
\* accepted forms, such as "not-a-date".
C11_NormalizeDate ==
  dateOut.by # "none" =>
    /\ \A sep \in { "-", "/" } :
         (dateIn.t = "string" /\ IsDmy(dateIn.s, sep)) =>
            dateOut.res = Text(DmyAsIso(dateIn.s, sep))
    /\ (dateIn.t = "string" /\ IsIsoDate(dateIn.s)) => dateOut.res = Text(dateIn.s)
    /\ NoDateForm(dateIn) => dateOut.res = Undefined

C13_CoerceIdentifierNeverFails ==
  idOut.by # "none" => (~idOut.res.threw /\ IsUuidText(idOut.res.value))

(***************************************************************************)
(* Structure of a produced bundle                                          *)
(***************************************************************************)
\* the id is a result of uuidv4() or matches the identifier pattern
IsPatternId(id) == isUuid(id) \/ \E n \in 1..uuidCount : id = Fresh(n)

\* C14: every record id in a produced bundle is a freshly generated identifier
\* or an external one that went through safeUuid, hence matches the
\* identifier pattern, whatever the external ids were.
C14_RecordIdsMatchPattern ==
  \A bundle \in ProducedBundles :
    \A r \in Resources(bundle) : IsPatternId(r.id)

\* position of the Invoice entry
InvoiceAt(bundle) ==
  CHOOSE i \in DOMAIN bundle.entry : bundle.entry[i].resource.resourceType = "Invoice"

\* place of entry i in the prescribed order; an Organization is the issuer
\* before the Invoice and an optional record after it
OrderRank(bundle, i) ==
  LET t == bundle.entry[i].resource.resourceType
  IN CASE t = "Composition" -> 1
       [] t = "Patient" -> 2
       [] t = "Practitioner" -> 3
       [] t = "Organization" -> IF i < InvoiceAt(bundle) THEN 4 ELSE 6
       [] t = "Invoice" -> 5
       [] t = "Encounter" -> 6
       [] t = "DocumentReference" -> 7
       [] OTHER -> 8

\* C15: the entries of a produced bundle are in the order Composition,
\* Patient, Practitioner, issuer Organization, Invoice, optional records,
\* DocumentReferences, Binaries; no Binary precedes a DocumentReference.
C15_EntryOrder ==
  \A bundle \in ProducedBundles :
    /\ bundle.entry[1].resource.resourceType = "Composition"
    /\ \A i, j \in DOMAIN bundle.entry :
         i < j => OrderRank(bundle, i) <= OrderRank(bundle, j)

\* the references of the Composition's section entries
SectionRefs(bundle) ==
  UNION { UNION { { r.section[i].entry[j].reference : j \in DOMAIN r.section[i].entry } :
                  i \in DOMAIN r.section } :
          r \in OfType(bundle, "Composition") }

\* C16: the Composition's section entries reference the Invoice and every
\* DocumentReference of the bundle, and nothing else.
C16_SectionEntries ==
  \A bundle \in ProducedBundles :
    SectionRefs(bundle) =
      { Urn(r.id) : r \in OfType(bundle, "Invoice") \cup OfType(bundle, "DocumentReference") }

\* the App.js invocations that ended with a submission, with their bundle
DoneBuilds ==
  { cb \in { << builds[b], bundle >> : b \in DOMAIN builds, bundle \in ProducedBundles } :
      cb[1].pc = "done" /\ cb[2] \in SubmittedFor(cb[1], submissions) }

CompositionOf(bundle) == CHOOSE r \in OfType(bundle, "Composition") : TRUE

\* the attester the configuration of closure c asks for, <<>> when it gives none
ChosenAttester(c, comp) ==
  IF c.attesterPartyType = "Practitioner"
    THEN << [ mode |-> c.attesterMode, party |-> [ reference |-> comp.author[1].reference ] ] >>
  ELSE IF c.attesterPartyType = "Organization" /\ c.attesterOrgName # ""
    THEN << [ mode |-> c.attesterMode, party |-> [ reference |-> Urn(c.ids.attesterOrgId) ] ] >>
  ELSE <<>>

DefaultAttester(comp) ==
  << [ mode |-> "official", party |-> [ reference |-> comp.author[1].reference ] ] >>

\* C17: the Composition's attester list is never empty: it holds the chosen
\* mode with the chosen party (the Author, or the attester organization when
\* the party type is Organization and a name was entered), and exactly one
\* "official" attester whose party is the Author when none can be built.
C17_AttesterNeverEmpty ==
  /\ \A cb \in DoneBuilds :
       LET comp == CompositionOf(cb[2])
           chosen == ChosenAttester(cb[1], comp)
       IN /\ Len(comp.attester) > 0
          /\ comp.attester = IF chosen # <<>> THEN chosen ELSE DefaultAttester(comp)
          /\ (cb[1].attesterPartyType = "Organization" /\ cb[1].attesterOrgName # "") =>
               \E r \in OfType(cb[2], "Organization") :
                 /\ Urn(r.id) = comp.attester[1].party.reference
                 /\ r.name = cb[1].attesterOrgName
  /\ \A bundle \in Range(generated) :
       LET comp == CompositionOf(bundle)
       IN /\ Len(comp.attester) = 1
          /\ comp.attester[1].mode = "official"
          /\ comp.attester[1].party = [ reference |-> comp.author[1].reference ]

\* a bundle built with party type Organization and no name, in a mode other
\* than "official", has been submitted with the default attester
C17_Witness ==
  \E cb \in DoneBuilds :
    /\ cb[1].attesterPartyType = "Organization"
    /\ cb[1].attesterOrgName = ""
    /\ cb[1].attesterMode # "official"
    /\ CompositionOf(cb[2]).attester = DefaultAttester(CompositionOf(cb[2]))

\* the optional record "what" built for closure c is among the bundle's records
OptionalPresent(c, bundle, what) ==
  CASE what = "encounter" -> \E r \in OfType(bundle, "Encounter") : r.id = c.ids.encounterId
    [] what = "custodian" ->
         \E r \in OfType(bundle, "Organization") : r.id = c.ids.custodianId /\ r.name = c.custodianName
    [] OTHER ->
         \E r \in OfType(bundle, "Organization") : r.id = c.ids.attesterOrgId /\ r.name = c.attesterOrgName

\* C18: each optional record (Encounter, custodian organization, attester
\* organization) is an entry of the bundle exactly when its triggering input
\* is non-empty, and the Composition carries the corresponding reference
\* exactly when the record is an entry; without the input the field is absent.
C18_OptionalRecords ==
  \A cb \in DoneBuilds :
    LET c == cb[1]
        bundle == cb[2]
        comp == CompositionOf(bundle)
        orgAttested == \E i \in DOMAIN comp.attester :
                          comp.attester[i].party.reference # comp.author[1].reference
    IN /\ (encounterText # "") <=> (OfType(bundle, "Encounter") # {})
       /\ (encounterText # "") <=> ("encounter" \in DOMAIN comp)
       /\ ("encounter" \in DOMAIN comp) =>
            /\ OptionalPresent(c, bundle, "encounter")
            /\ comp.encounter.reference = Urn(c.ids.encounterId)
       /\ (c.custodianName # "") <=> ("custodian" \in DOMAIN comp)
       /\ (c.custodianName # "") <=> OptionalPresent(c, bundle, "custodian")
       /\ ("custodian" \in DOMAIN comp) => comp.custodian.reference = Urn(c.ids.custodianId)
       /\ (c.attesterPartyType = "Organization" /\ c.attesterOrgName # "") <=> orgAttested
       /\ orgAttested <=> OptionalPresent(c, bundle, "attester")
       /\ Cardinality(OfType(bundle, "Organization")) =
            (IF c.custodianName # "" THEN 1 ELSE 0)
            + (IF c.attesterPartyType = "Organization" /\ c.attesterOrgName # "" THEN 1 ELSE 0)

\* a submitted bundle with an Encounter and no Organization, built with an
\* attester organization name typed while the party type is Practitioner
C18_Witness ==
  \E cb \in DoneBuilds :
    /\ encounterText # ""
    /\ cb[1].custodianName = ""
    /\ cb[1].attesterPartyType = "Practitioner"
    /\ cb[1].attesterOrgName # ""
    /\ OfType(cb[2], "Encounter") # {}
    /\ OfType(cb[2], "Organization") = {}

\* the file whose payload the Binary holds, <<>> for the placeholder
FileOfPayload(bin) ==
  LET hits == { f \in FilePool : DataUrl(f).payload = bin.data }
  IN IF hits = {} THEN <<>> ELSE << CHOOSE f \in hits : TRUE >>

\* C19: DocumentReferences and Binaries of a produced bundle are in one-to-one
\* correspondence: each DocumentReference's attachment url is the locator of
\* exactly one Binary, each Binary is referenced by exactly one
\* DocumentReference, and the DocumentReference carries the MIME type and the
\* title (file name) of that payload.
C19_ReferencePayloadPairs ==
  \A bundle \in ProducedBundles :
    LET bins == OfType(bundle, "Binary")
        drs == OfType(bundle, "DocumentReference")
    IN /\ \A d \in drs : Cardinality({ b \in bins : Urn(b.id) = d.content[1].attachment.url }) = 1
       /\ \A b \in bins : Cardinality({ d \in drs : d.content[1].attachment.url = Urn(b.id) }) = 1
       /\ \A d \in drs : \A b \in bins :
            d.content[1].attachment.url = Urn(b.id) =>
              /\ "contentType" \in DOMAIN d.content[1].attachment
              /\ d.content[1].attachment.contentType = b.contentType
              /\ d.content[1].attachment.title =
                   IF FileOfPayload(b) = <<>> THEN "placeholder.pdf" ELSE FileOfPayload(b)[1].name

\* the pairs of bundles two different runs of the build have produced
TwoRuns ==
  { << p[1][2], p[2][2] >> : p \in { q \in DoneBuilds \X DoneBuilds : q[1][1] # q[2][1] } }
  \cup { << generated[p[1]], generated[p[2]] >> :
           p \in { q \in (DOMAIN generated) \X (DOMAIN generated) : q[1] < q[2] } }

\* a locator or reference, named by the position of the entry it denotes
Place(bundle, ref) ==
  LET hits == { i \in DOMAIN bundle.entry : bundle.entry[i].fullUrl = ref }
  IN IF hits = {} THEN ref ELSE "entry-" \o ToString(CHOOSE i \in hits : TRUE)

Placed(bundle, x) == [ reference |-> Place(bundle, x.reference) ] @@ x

\* record r with its id blanked and each of its references named by position
WithoutIds(bundle, r) ==
  LET has(f) == f \in DOMAIN r
      one(f) == IF has(f) THEN f :> Placed(bundle, r[f]) ELSE <<>>
  IN [ id |-> "" ]
     @@ one("subject") @@ one("encounter") @@ one("custodian") @@ one("recipient") @@ one("issuer")
     @@ (IF has("author")
           THEN [ author |-> [ k \in DOMAIN r.author |-> Placed(bundle, r.author[k]) ] ] ELSE <<>>)
     @@ (IF has("attester")
           THEN [ attester |-> [ k \in DOMAIN r.attester |->
                     [ party |-> Placed(bundle, r.attester[k].party) ] @@ r.attester[k] ] ]
           ELSE <<>>)
     @@ (IF has("section")
           THEN [ section |-> [ k \in DOMAIN r.section |->
                     [ entry |-> [ m \in DOMAIN r.section[k].entry |->
                                     Placed(bundle, r.section[k].entry[m]) ] ]
                     @@ r.section[k] ] ]
           ELSE <<>>)
     @@ (IF has("participant")
           THEN [ participant |-> [ k \in DOMAIN r.participant |->
                     [ actor |-> Placed(bundle, r.participant[k].actor) ] ] ]
           ELSE <<>>)
     @@ (IF has("content")
           THEN [ content |-> [ k \in DOMAIN r.content |->
                     [ attachment |->
                         [ url |-> Place(bundle, r.content[k].attachment.url) ]
                         @@ r.content[k].attachment ] ] ]
           ELSE <<>>)
     @@ r

\* the bundle with every randomized identifier blanked (record ids, Bundle.id
\* and, in App.js, Bundle.identifier.value) and every locator and reference
\* named by position
Skeleton(bundle) ==
  [ id |-> "",
    entry |-> [ i \in DOMAIN bundle.entry |->
                  [ fullUrl |-> Place(bundle, bundle.entry[i].fullUrl),
                    resource |-> WithoutIds(bundle, bundle.entry[i].resource) ] ] ]
  @@ (IF variant = "App" THEN [ identifier |-> [ bundle.identifier EXCEPT !.value = "" ] ] ELSE <<>>)
  @@ bundle

\* record r without the fields that hold a reading of the clock
UnstampedRecord(r) ==
  LET has(f) == f \in DOMAIN r
  IN (IF has("period") THEN [ period |-> "" ] ELSE <<>>)
     @@ (IF has("date") /\ r.resourceType = "Composition"
              /\ (variant = "R2" \/ dateTimeLocal = "")
           THEN [ date |-> "" ] ELSE <<>>)
     @@ (IF has("date") /\ r.resourceType \in { "Invoice", "DocumentReference" }
              /\ (IF variant = "App" THEN dateTimeLocal = "" ELSE invoiceDate = "")
           THEN [ date |-> "" ] ELSE <<>>)
     @@ (IF has("attester")
           THEN [ attester |-> [ k \in DOMAIN r.attester |->
                     (IF "time" \in DOMAIN r.attester[k] THEN [ time |-> "" ] ELSE <<>>)
                     @@ r.attester[k] ] ]
           ELSE <<>>)
     @@ (IF has("content")
           THEN [ content |-> [ k \in DOMAIN r.content |->
                     [ attachment |->
                         (IF "creation" \in DOMAIN r.content[k].attachment
                            THEN [ creation |-> "" ] ELSE <<>>)
                         @@ r.content[k].attachment ] ] ]
           ELSE <<>>)
     @@ r

\* the skeleton without the fields that hold a reading of the clock: the
\* Bundle timestamp, meta.lastUpdated (App.js) and clock-built identifier value
\* (invoice-record-2.js), the Encounter period, the DocumentReference creation
\* time, the attester time, the Composition date of invoice-record-2.js, and
\* the Composition / Invoice / DocumentReference date taken from the clock
\* when the date input is empty
Unstamped(bundle) ==
  LET sk == Skeleton(bundle)
  IN [ timestamp |-> "",
       entry |-> [ i \in DOMAIN sk.entry |->
                     [ sk.entry[i] EXCEPT !.resource = UnstampedRecord(@) ] ] ]
     @@ (IF "meta" \in DOMAIN sk THEN [ meta |-> "" ] ELSE <<>>)
     @@ (IF variant = "R2" THEN [ identifier |-> [ sk.identifier EXCEPT !.value = "" ] ] ELSE <<>>)
     @@ sk

NormalizedAddresses(idx) ==
  IF idx \notin PatientIdxs \/ patients = <<>> THEN {}
  ELSE IF variant = "App"
    THEN { normalizeAbhaAddresses(PatientAt(idx))[i].value :
             i \in DOMAIN normalizeAbhaAddresses(PatientAt(idx)) }
  ELSE Range(getAbhaAddressesForPatient(PatientAt(idx)))

C27_AddressOfSelectedPatient ==
  selectedAbha \in { "" } \cup NormalizedAddresses(selectedPatientIdx)

\* the second patient is selected with its address, after an address of the
\* first patient had been selected
C27_Witness ==
  /\ selectedPatientIdx = 1
  /\ selectedAbha \in NormalizedAddresses(1)
  /\ selectedAbha \notin NormalizedAddresses(0)

(***************************************************************************)
(* C29 (R2): an override of a total stays in effect for builds until the    *)
(* next change of the line list; every add, update or remove of a line      *)
(* resets the three total fields to the values computed from the lines, so  *)
(* a build right after a line change writes the computed totals.            *)
(***************************************************************************)
AutoTotals(lis) == << AutoNet(lis), AutoTax(lis), AutoGross(lis) >>
\* what was typed into a total input in SpecForm
TypedTotal == Lit(125000)
\* the total fields differ in exactly one place, which now holds the typed text
OneTotalTyped ==
  \E i \in 1..3 :
    /\ r2Totals'[i] = TypedTotal
    /\ \A j \in (1..3) \ { i } : r2Totals'[j] = r2Totals[j]

\* C29: in every step of invoice-record-2.js, (1) a change of the line list
\* leaves the three total fields at the values computed from the new list;
\* (2) the total fields change only by such a reset or by typing into one of
\* them; (3) a build leaves the fields alone and writes into the Invoice the
\* number of each field as it stands: the override while one is in the field,
\* the value computed from the lines when the field holds the computed text.
C29_OverrideUntilLineChange ==
  [][ variant = "R2" =>
        /\ (lineItems' # lineItems => r2Totals' = AutoTotals(lineItems'))
        /\ (r2Totals' # r2Totals => r2Totals' = AutoTotals(lineItems') \/ OneTotalTyped)
        /\ (generated' # generated =>
              LET inv == InvoiceOf(generated'[Len(generated')])
              IN /\ r2Totals' = r2Totals
                 /\ lineItems' = lineItems
                 /\ inv.totalNet.value =
                      IF totalNet = TypedTotal THEN Number(TypedTotal)
                      ELSE Number(AutoNet(lineItems))
                 /\ inv.totalGross.value =
                      IF totalGross = TypedTotal THEN Number(TypedTotal)
                      ELSE Number(AutoGross(lineItems)))
    ]_vars
\* a build ran on a two-line list with the net overridden after the last line
\* change, and wrote the override for net and the computed value for gross
C29_Witness ==
  /\ variant = "R2"
  /\ generated # <<>>
  /\ Len(InvoiceOf(generated[1]).lineItem) = 2
  /\ InvoiceOf(generated[1]).totalNet.value = Number(TypedTotal)
  /\ InvoiceOf(generated[1]).totalGross.value # Number(TypedTotal)
  /\ totalNet = AutoNet(lineItems)

(***************************************************************************)
(* Line entries of the Invoice                                             *)
(***************************************************************************)
\* Invoice.lineItem, an absent field counting as no entries
LineEntries(inv) == IF "lineItem" \in DOMAIN inv THEN inv.lineItem ELSE <<>>

\* C23: the Invoice of every produced bundle carries exactly one line entry
\* per line of the input, in input order, lines of quantity or unit price 0
\* included; the label of an entry is the description of its line, or the
\* fallback label ("Charge" in App.js, "Item <n>" in invoice-record-2.js)
\* when the description is empty.
C23_OneEntryPerLine ==
  [][ /\ R2Produces =>
           LET e == LineEntries(InvoiceOf(NewR2Bundle))
           IN /\ Len(e) = Len(lineItems)
              /\ \A i \in DOMAIN e :
                   e[i].chargeItemCodeableConcept.display =
                     IF lineItems[i].description # "" THEN lineItems[i].description
                     ELSE "Item " \o ToString(i)
      /\ \A b \in Finishing :
           \A bundle \in SubmittedFor(builds'[b], submissions') :
             LET e == LineEntries(InvoiceOf(bundle))
                 ls == builds'[b].lines
             IN /\ Len(e) = Len(ls)
                /\ \A i \in DOMAIN e :
                     e[i].chargeItemCodeableConcept.text =
                       IF ls[i].description # "" THEN ls[i].description ELSE "Charge" ]_vars

\* base amount times quantity factor of one emitted line entry of App.js
EntryAmount(entry) ==
  Mul(entry.priceComponent[1].amount.value, entry.priceComponent[2].factor)

\* C28 (App.js): in every submitted bundle the Invoice's totalNet is the sum,
\* over the line entries emitted in that Invoice, of base amount x quantity
\* factor (to 2 decimals); and a build that passed validation with no file,
\* so only because a line has amount > 0, emits at least one line entry.
C28_TotalMatchesEmittedLines ==
  [][ \A b \in Finishing :
        \A bundle \in SubmittedFor(builds'[b], submissions') :
          LET e == LineEntries(InvoiceOf(bundle))
          IN /\ InvoiceOf(bundle).totalNet.value =
                  RoundOnce(SumNum([ i \in DOMAIN e |-> EntryAmount(e[i]) ]))
             /\ (builds'[b].files = <<>> => Len(e) >= 1) ]_vars

(***************************************************************************)
(* Submission of the bundle (App.js)                                       *)
(***************************************************************************)
\* the submissions issued for the invocation with closure c
SubmissionsOf(c, subs) ==
  { k \in DOMAIN subs : subs[k].bundle.entry[1].resource.id = c.ids.compId }

\* what this step adds to the console
Logged == SubSeq(console', Len(console) + 1, Len(console'))

\* C21: each build that completes issues exactly one submission, in the step
\* in which it completes; a submission, once issued, is never changed and
\* never issued again, whether its post succeeds or fails; when the post
\* fails the bundle is left as it was and the failure log carries the very
\* bundle and patient that were posted.
C21_OneSubmissionNoRetry ==
  [][ /\ Len(submissions') = Len(submissions) + Cardinality(Finishing)
      /\ \A k \in DOMAIN submissions : submissions'[k] = submissions[k]
      /\ \A b \in Finishing :
           /\ Cardinality(SubmissionsOf(builds'[b], submissions')) = 1
           /\ SubmissionsOf(builds'[b], submissions) = {}
      /\ console' # console =>
           /\ submissions' = submissions
           /\ builds' = builds
           /\ \E k \in DOMAIN submissions \ Settled :
                /\ \A i \in DOMAIN Logged : Logged[i].of = k
                /\ \/ /\ Len(Logged) = 1
                      /\ Logged[1].text = "FHIR Bundle Submitted:"
                   \/ /\ Len(Logged) = 2
                      /\ Logged[1].level = "error"
                      /\ Logged[2].data = [ bundle |-> submissions[k].bundle,
                                            patient |-> submissions[k].patient ]
    ]_vars
\* two builds completed, the post of the first failed and the post of the
\* second succeeded
C21_Witness ==
  /\ Len(submissions) = 2
  /\ \E i, j \in DOMAIN console :
       /\ console[i].of = 1 /\ console[i].level = "error"
       /\ console[j].of = 2 /\ console[j].text = "FHIR Bundle Submitted:"
  /\ \A b \in DOMAIN builds : builds[b].pc = "done"

(***************************************************************************)
(* Edits while a build is suspended (App.js)                               *)
(***************************************************************************)
\* the form fields a build reads, as the closure holds them and as the form
\* holds them now
Captured(c) ==
  << c.selectedPatientIdx, c.selectedAbha, c.lines, c.files, c.status, c.title,
     c.custodianName, c.attesterMode, c.attesterPartyType, c.attesterOrgName >>
FormNow ==
  << selectedPatientIdx, selectedAbha, lines, files, status, title,
     custodianName, attesterMode, attesterPartyType, attesterOrgName >>

\* C25: an invocation of the build works on the form as it was when it was
\* invoked: what it holds is the form of the click and never changes while it
\* is suspended, and the bundle it submits has the title, the lines and one
\* Binary per file of that form, and is submitted for the patient selected
\* at the click, whatever was edited in between.
C25_BuildUsesFormAtInvocation ==
  [][ /\ \A b \in DOMAIN builds' :
           Captured(builds'[b]) = IF b \in DOMAIN builds THEN Captured(builds[b]) ELSE FormNow
      /\ \A b \in Finishing :
           \A k \in SubmissionsOf(builds'[b], submissions') :
             LET c == builds'[b]
                 bundle == submissions'[k].bundle
             IN /\ submissions'[k].patient = PatientAt(c.selectedPatientIdx).id
                /\ CompositionOf(bundle).title = c.title
                /\ InvoiceOf(bundle) = buildInvoiceResource(c)
                /\ Payloads(bundle) =
                     IF c.files = <<>> THEN { PLACEHOLDER_PDF_B64 }
                     ELSE { DataUrl(c.files[i]).payload : i \in DOMAIN c.files }
    ]_vars
\* a build invoked for the first patient with one file completed after the
\* patient, the title, the line and the files had been changed
C25_Witness ==
  \E b \in DOMAIN builds :
    /\ builds[b].pc = "done"
    /\ builds[b].selectedPatientIdx = 0
    /\ Len(builds[b].files) = 1
    /\ selectedPatientIdx = 1
    /\ title # builds[b].title
    /\ lines # builds[b].lines
    /\ files = <<>>
    /\ \E k \in SubmissionsOf(builds[b], submissions) : submissions[k].patient = "101"

(***************************************************************************)
(* Overlapping builds (App.js)                                             *)
(***************************************************************************)
\* locator, unique-identifier and no-dangling-reference invariants of one bundle
WellFormed(bundle) ==
  /\ \A i \in DOMAIN bundle.entry :
       bundle.entry[i].fullUrl = "urn:uuid:" \o bundle.entry[i].resource.id
  /\ \A i, j \in DOMAIN bundle.entry :
       i # j => bundle.entry[i].resource.id # bundle.entry[j].resource.id
  /\ \A r \in Resources(bundle) : RefsOf(r) \subseteq Locators(bundle)

AllRefs(bundle) == UNION { RefsOf(r) : r \in Resources(bundle) }

\* a step changes what at most one invocation holds, and nothing of what an
\* invocation has read from the form or drawn as identifiers
StepTouchesOneBuild ==
  \A b \in DOMAIN builds :
    /\ builds'[b].ids = builds[b].ids
    /\ Captured(builds'[b]) = Captured(builds[b])
    /\ builds'[b] # builds[b] => \A o \in DOMAIN builds \ { b } : builds'[o] = builds[o]

\* C24 as stated: when two invocations of the build overlap, no step of one
\* changes what the other holds, each submitted bundle satisfies the locator,
\* unique-identifier and no-dangling-reference invariants on its own, and
\* every reference of a bundle resolves inside that bundle and not in the
\* other one.
C24_OverlappingBuildsDisjoint ==
  [][ /\ StepTouchesOneBuild
      /\ \A k \in DOMAIN submissions' : WellFormed(submissions'[k].bundle)
      /\ \A k, j \in DOMAIN submissions' :
           k # j => AllRefs(submissions'[k].bundle) \cap Locators(submissions'[j].bundle) = {}
    ]_vars

\* C24, amended: as above, but the two bundles share exactly one locator, that
\* of the Practitioner, whose id is the constant practitionerRefId of the
\* module; every other reference resolves in its own bundle only.
C24_DisjointExceptPractitioner ==
  [][ /\ StepTouchesOneBuild
      /\ \A k \in DOMAIN submissions' : WellFormed(submissions'[k].bundle)
      /\ \A k, j \in DOMAIN submissions' :
           k # j =>
             /\ Locators(submissions'[k].bundle) \cap Locators(submissions'[j].bundle)
                  = { Urn(practitionerRefId) }
             /\ AllRefs(submissions'[k].bundle) \cap Locators(submissions'[j].bundle)
                  = { Urn(practitionerRefId) }
    ]_vars
\* the second invocation was started and completed while the first was
\* waiting for its file, and then the first completed
C24_Witness ==
  /\ Len(builds) = 2
  /\ Len(submissions) = 2
  /\ submissions[1].bundle.entry[1].resource.id = builds[2].ids.compId
  /\ submissions[2].bundle.entry[1].resource.id = builds[1].ids.compId
  /\ Len(builds[1].files) = 1

(***************************************************************************)
(* Generated text and download (invoice-record-2.js)                       *)
(***************************************************************************)
\* C30: a build refused by validation leaves the generated text as it was;
\* nothing is downloaded while no build has succeeded; a download emits
\* exactly the text of the most recent successful build and changes nothing
\* else; and edits of the form leave the generated text alone.
C30_DownloadIsLastBuild ==
  [][ variant = "R2" =>
        /\ (alerted' # alerted =>
              /\ alerted' = << R2Refusal >>
              /\ generated' = generated
              /\ generatedBundleJson' = generatedBundleJson)
        /\ (generated' # generated =>
              /\ R2Refusal = ""
              /\ SubSeq(generated', 1, Len(generated)) = generated
              /\ generatedBundleJson' = JSONstringify(NewR2Bundle))
        /\ (downloaded' # downloaded =>
              /\ generated # <<>>
              /\ downloaded' = Append(downloaded, JSONstringify(generated[Len(generated)]))
              /\ generated' = generated)
        /\ (generated' = <<>> => downloaded' = <<>>)
    ]_vars
\* two downloads gave two different texts, the second the text of the second
\* build, with the line edited and a build refused after that build
C30_Witness ==
  /\ variant = "R2"
  /\ Len(generated) = 2
  /\ Len(downloaded) = 2
  /\ downloaded[1] = JSONstringify(generated[1])
  /\ downloaded[2] = JSONstringify(generated[2])
  /\ InvoiceOf(generated[2]).totalNet.value # Number(totalNet)
  /\ alerted = << "Please select an ABHA address." >>

(***************************************************************************)
(* Timestamps                                                              *)
(***************************************************************************)
\* every timestamp a build writes into the bundle
StampsOfRecord(r) ==
  LET has(f) == f \in DOMAIN r
  IN (IF has("date") THEN { r.date } ELSE {})
     \cup (IF has("period") THEN { r.period.start, r.period["end"] } ELSE {})
     \cup (IF has("attester")
            THEN { r.attester[k].time :
                     k \in { j \in DOMAIN r.attester : "time" \in DOMAIN r.attester[j] } }
            ELSE {})
     \cup (IF has("content")
            THEN { r.content[k].attachment.creation :
                     k \in { j \in DOMAIN r.content : "creation" \in DOMAIN r.content[j].attachment } }
            ELSE {})

Stamps(bundle) ==
  { bundle.timestamp }
  \cup (IF "meta" \in DOMAIN bundle THEN { bundle.meta.lastUpdated } ELSE {})
  \cup UNION { StampsOfRecord(r) : r \in Resources(bundle) }

\* date and time of day, to the second, of the instants of the model
StampBodies ==
  { "T0+" \o ToString(n) \o "s" : n \in 0..MaxClock } \cup { MountDateTimeLocal \o ":00" }

TwoDigits(n) == IF n < 10 THEN "0" \o ToString(n) ELSE ToString(n)

\* text is a date and time followed by sign hh:mm, with
\* sign x (60 x hh + mm) = minutes
HasOffset(text, minutes) ==
  \E sg \in { 1, 0 - 1 }, hh \in 0..14, mm \in 0..59 :
    /\ sg * (60 * hh + mm) = minutes
    /\ \E body \in StampBodies :
         text = body \o (IF sg = 1 THEN "+" ELSE "-") \o TwoDigits(hh) \o ":" \o TwoDigits(mm)

\* C22: every timestamp a build writes into the bundle (bundle timestamp,
\* Composition date, Invoice date, DocumentReference date, Encounter period)
\* ends in sign hh:mm, never in "Z", and that offset is the local offset from
\* UTC in minutes, for negative and non-whole-hour offsets too.
C22_StampsCarryLocalOffset ==
  \A bundle \in ProducedBundles :
    \A text \in Stamps(bundle) : HasOffset(text, 0 - tzOffset)

================================================================
